---- MODULE Spec2Model ----
(***************************************************************************)
(* A model of fwlib's DomStorage (chunked storage of JSON in dom.pngText)  *)
(* and of the LayerTree / Layer classes of fwlib/layers.                   *)
(*                                                                         *)
(* Strings are sequences of one-character strings, so that substr, join    *)
(* and JSON conversion are computed character by character.                *)
(***************************************************************************)
EXTENDS Integers, Sequences, FiniteSets, TLC

VARIABLES
    pngText,    \* dom.pngText of the first page: the metadata slot and the chunk slots
    inst,       \* the DomStorage instances: their data properties and _metadata.chunkCount
    frame,      \* the position and the locals of the DomStorage call in progress
    calls,      \* how many save(), remove() calls and direct writes to dom.pngText were made
    dom,        \* the document's flat layer list: dom.layers and dom.getParentLayerNum
    heap,       \* every Layer object created so far; a Layer is referred to by its position
    tree,       \* the LayerTree object: _layers, _root, _ignoreWebLayers
    rf,         \* the position of the refresh() in progress, and how many were made
    out,        \* the last call of a function of a module, and what it returned
    prefFile,   \* the entry of the preference in the Fireworks preferences file
    prefObj,    \* the PrefsStorage instance: its data properties
    otherPages, \* the pngText of the pages after the first, page k at otherPages[k]
    currentPageNum, \* dom.currentPageNum
    global,     \* _global: the values of define, require and requirejs in the global scope
    context,    \* the Context objects: globals, preservedGlobals, preservedGlobalsStack, loadedRequire
    running     \* the calls of execute that have not returned, the innermost last

dsVars == <<pngText, inst, frame, calls>>

treeVars == <<dom, heap, tree, rf>>

prefVars == <<prefFile, prefObj>>

pageVars == <<otherPages, currentPageNum>>

ctxVars == <<global, context, running>>

vars == <<pngText, inst, frame, calls, dom, heap, tree, rf, out, prefFile, prefObj,
          otherPages, currentPageNum, global, context, running>>

-----------------------------------------------------------------------------
(* Bounds *)

\* payloads need at most this many chunks
MaxChunks == 4

\* number of save() and remove() calls and of direct writes to dom.pngText in a run
MaxCalls == 3

\* number of layers of a document
MaxLayers == 3

\* number of refresh() calls after the constructor's
MaxRefresh == 2
MaxArgs == 3
MaxPages == 3
MaxDepth == 3

-----------------------------------------------------------------------------
(* JavaScript values: strings, numbers, undefined, flat objects *)

JStr(s) == [t |-> "string", s |-> s, n |-> 0]
JNum(n) == [t |-> "number", s |-> <<>>, n |-> n]
JUndefined == [t |-> "undefined", s |-> <<>>, n |-> 0]

\* if (value) ...: undefined, "" and 0 are falsy
Truthy(v) ==
    CASE v.t = "string" -> Len(v.s) > 0
      [] v.t = "number" -> v.n # 0
      [] OTHER -> FALSE

\* an object is the sequence of its own enumerable properties, in insertion order
HasKey(obj, k) == \E j \in 1..Len(obj) : obj[j].k = k

KeyPos(obj, k) == CHOOSE j \in 1..Len(obj) : obj[j].k = k

\* obj[k]
GetProp(obj, k) == IF HasKey(obj, k) THEN obj[KeyPos(obj, k)].v ELSE JUndefined

\* obj[k] = v: an existing property keeps its place, a new one is added last
SetPropOf(obj, k, v) ==
    IF HasKey(obj, k)
    THEN [obj EXCEPT ![KeyPos(obj, k)] = [k |-> k, v |-> v]]
    ELSE Append(obj, [k |-> k, v |-> v])

-----------------------------------------------------------------------------
(* dojo/json: JSON.stringify and JSON.parse on flat objects *)

Digits == <<"0", "1", "2", "3", "4", "5", "6", "7", "8", "9">>

IsDigit(c) == \E d \in 1..10 : Digits[d] = c

DigitVal(c) == (CHOOSE d \in 1..10 : Digits[d] = c) - 1

RECURSIVE NumToStr(_)
NumToStr(n) ==
    IF n < 10 THEN <<Digits[n + 1]>>
    ELSE NumToStr(n \div 10) \o <<Digits[(n % 10) + 1]>>

RECURSIVE StrToNum(_)
StrToNum(s) ==
    IF Len(s) = 0 THEN 0
    ELSE 10 * StrToNum(SubSeq(s, 1, Len(s) - 1)) + DigitVal(s[Len(s)])

Quote(s) == <<"\"">> \o s \o <<"\"">>

StringifyValue(v) == IF v.t = "string" THEN Quote(v.s) ELSE NumToStr(v.n)

RECURSIVE StringifyMembers(_)
StringifyMembers(obj) ==
    IF Len(obj) = 0 THEN <<>>
    ELSE Quote(obj[1].k) \o <<":">> \o StringifyValue(obj[1].v)
         \o (IF Len(obj) > 1 THEN <<",">> ELSE <<>>)
         \o StringifyMembers(Tail(obj))

\* a stringify that gives the empty string for an object without properties
StringifyEmptyAsNothing(obj) ==
    IF Len(obj) = 0 THEN <<>> ELSE <<"{">> \o StringifyMembers(obj) \o <<"}">>

\* JSON.stringify(obj) of an object whose properties are strings and numbers
Stringify(obj) == <<"{">> \o StringifyMembers(obj) \o <<"}">>

IsQuote(c) == c = "\""

\* the least element of a set of positions, fallback if the set is empty
Least(hits, fallback) ==
    IF hits = {} THEN fallback ELSE CHOOSE j \in hits : \A h \in hits : j <= h

\* the position of the first quote of s at or after p, Len(s) + 1 if there is none
FirstQuoteFrom(s, p) == Least({j \in p..Len(s) : IsQuote(s[j])}, Len(s) + 1)

\* the position of the first character of s at or after p that is no digit
FirstNonDigitFrom(s, p) == Least({j \in p..Len(s) : ~IsDigit(s[j])}, Len(s) + 1)

ParseFail == [ok |-> FALSE, t |-> "undefined", s |-> <<>>, n |-> 0, m |-> <<>>, next |-> 0]

\* a string or a number starting at position p of s
ParseScalar(s, p) ==
    IF p > Len(s) THEN ParseFail
    ELSE IF IsQuote(s[p]) THEN
        LET q == FirstQuoteFrom(s, p + 1)
        IN  IF q > Len(s) THEN ParseFail
            ELSE [ok |-> TRUE, t |-> "string", s |-> SubSeq(s, p + 1, q - 1),
                  n |-> 0, m |-> <<>>, next |-> q + 1]
    ELSE IF IsDigit(s[p]) THEN
        LET q == FirstNonDigitFrom(s, p)
        IN  [ok |-> TRUE, t |-> "number", s |-> <<>>,
             n |-> StrToNum(SubSeq(s, p, q - 1)), m |-> <<>>, next |-> q]
    ELSE ParseFail

\* the members of an object, from position p (after "{" or ",") to the closing "}"
RECURSIVE ParseMembers(_, _, _)
ParseMembers(s, p, acc) ==
    LET key == ParseScalar(s, p)
    IN  IF ~key.ok \/ key.t # "string" THEN ParseFail
        ELSE IF key.next > Len(s) \/ s[key.next] # ":" THEN ParseFail
        ELSE LET val == ParseScalar(s, key.next + 1)
             IN  IF ~val.ok \/ val.next > Len(s) THEN ParseFail
                 ELSE LET v == [t |-> val.t, s |-> val.s, n |-> val.n]
                          obj == SetPropOf(acc, key.s, v)
                      IN  IF s[val.next] = "}" THEN
                              [ok |-> TRUE, t |-> "object", s |-> <<>>, n |-> 0,
                               m |-> obj, next |-> val.next + 1]
                          ELSE IF s[val.next] = "," THEN
                              ParseMembers(s, val.next + 1, obj)
                          ELSE ParseFail

\* JSON.parse(s): ok is FALSE when it throws a SyntaxError
Parse(s) ==
    LET r == IF Len(s) = 0 THEN ParseFail
             ELSE IF s[1] = "{" THEN
                 IF Len(s) >= 2 /\ s[2] = "}" THEN
                     [ok |-> TRUE, t |-> "object", s |-> <<>>, n |-> 0,
                      m |-> <<>>, next |-> 3]
                 ELSE ParseMembers(s, 2, <<>>)
             ELSE ParseScalar(s, 1)
    IN  IF r.ok /\ r.next = Len(s) + 1 THEN r ELSE ParseFail

-----------------------------------------------------------------------------
(* DomStorage *)

ChunkSize == 1023

\* DomStorage.version = 1.0, which JSON writes as 1
Version == 1

Instances == {1}

\* inName, the same for every instance
Name == <<"M", "y">>

KeyName == <<"n", "a", "m", "e">>
KeyChunkCount == <<"c", "h", "u", "n", "k", "C", "o", "u", "n", "t">>
KeyVersion == <<"v", "e", "r", "s", "i", "o", "n">>
KeyFoo == <<"f", "o", "o">>
KeyBaz == <<"b", "a", "z">>
KeySave == <<"s", "a", "v", "e">>
KeyRemove == <<"r", "e", "m", "o", "v", "e">>

\* k.ReservedNames
ReservedNames == {KeySave, KeyRemove}

\* a slot of dom.pngText: never written (undefined), or a string
Unwritten == [def |-> FALSE, s |-> <<>>]
Written(s) == [def |-> TRUE, s |-> s]

\* a slot as the JavaScript value a read gives
SlotValue(slot) == IF slot.def THEN JStr(slot.s) ELSE JUndefined

\* getPngText(): the pngText of the first page
getPngText == pngText

\* pngText[_metadata.name + "_" + j] = s
WriteChunk(pt, j, s) == [pt EXCEPT !.chunk[j] = Written(s)]

\* pngText[_metadata.name] = s
WriteMeta(pt, s) == [pt EXCEPT !.meta = Written(s)]

\* a mixin that copies every property
RECURSIVE mixinUnguarded(_, _)
mixinUnguarded(inDestination, inSource) ==
    IF Len(inSource) = 0 THEN inDestination
    ELSE mixinUnguarded(SetPropOf(inDestination, inSource[1].k, inSource[1].v),
                        Tail(inSource))

\* mixin(inDestination, inSource): copy the properties whose names are not reserved
RECURSIVE mixin(_, _)
mixin(inDestination, inSource) ==
    IF Len(inSource) = 0 THEN inDestination
    ELSE mixin(IF inSource[1].k \in ReservedNames THEN inDestination
               ELSE SetPropOf(inDestination, inSource[1].k, inSource[1].v),
               Tail(inSource))

\* the _metadata object of an instance whose chunkCount is c
Metadata(c) ==
    << [k |-> KeyName, v |-> JStr(Name)],
       [k |-> KeyChunkCount, v |-> c],
       [k |-> KeyVersion, v |-> JNum(Version)] >>

\* value.chunkCount for a parsed value: undefined unless an object that has it
ChunkCountOf(parsed) ==
    IF parsed.t = "object" THEN GetProp(parsed.m, KeyChunkCount) ELSE JUndefined

\* the bound of a loop "for (i = ..., len = v; i < len; i++)"
LoopLen(v) == IF v.t = "number" THEN v.n ELSE 0

\* a substr that takes one character less than ChunkSize
SubstrShort(s, i) ==
    SubSeq(s, i + 1, IF i + ChunkSize - 1 < Len(s) THEN i + ChunkSize - 1 ELSE Len(s))

\* dataString.substr(i, ChunkSize), i counted from 0
Substr(s, i) ==
    SubSeq(s, i + 1, IF i + ChunkSize < Len(s) THEN i + ChunkSize ELSE Len(s))

\* chunks.join("") of the slots name_0 .. name_(count - 1); undefined joins as ""
RECURSIVE JoinChunks(_, _)
JoinChunks(pt, count) ==
    IF count <= 0 THEN <<>>
    ELSE JoinChunks(pt, count - 1) \o pt.chunk[count - 1].s


\* the string written to a chunk slot that is no longer used
UnusedChunkEarlier == <<"u", "n", "d", "e", "f", "i", "n", "e", "d">>

UnusedChunk == <<>>

\* chunk writes whose offset advances by one less than ChunkSize
RECURSIVE ChunkWritesOverlap(_, _, _)
ChunkWritesOverlap(dataString, i, chunkCount) ==
    IF i >= Len(dataString) THEN <<>>
    ELSE <<[slot |-> "chunk", j |-> chunkCount, s |-> Substr(dataString, i)]>>
         \o ChunkWritesOverlap(dataString, i + ChunkSize - 1, chunkCount + 1)

\* the chunk writes of save(): dataString cut into pieces of ChunkSize, from offset i
RECURSIVE ChunkWrites(_, _, _)
ChunkWrites(dataString, i, chunkCount) ==
    IF i >= Len(dataString) THEN <<>>
    ELSE <<[slot |-> "chunk", j |-> chunkCount, s |-> Substr(dataString, i)]>>
         \o ChunkWrites(dataString, i + ChunkSize, chunkCount + 1)

\* a clearing that starts at slot 0 instead of slot chunkCount
ClearWritesFromZero(i, len) ==
    IF i >= len THEN <<>>
    ELSE [q \in 1..len |-> [slot |-> "chunk", j |-> q - 1, s |-> <<>>]]

\* the writes that clear the slots chunkCount .. len - 1 used by the previous save
RECURSIVE ClearWrites(_, _)
ClearWrites(i, len) ==
    IF i >= len THEN <<>>
    ELSE <<[slot |-> "chunk", j |-> i, s |-> UnusedChunk]>> \o ClearWrites(i + 1, len)

MetaWrite(chunkCount) ==
    [slot |-> "meta", j |-> chunkCount, s |-> Stringify(Metadata(JNum(chunkCount)))]

\* a save that stores the metadata before the chunks
SaveWritesMetaFirst(dataString, oldCount) ==
    LET chunks == ChunkWrites(dataString, 0, 0)
    IN  <<MetaWrite(Len(chunks))>> \o chunks \o ClearWrites(Len(chunks), LoopLen(oldCount))

\* save(): the writes to pngText in the order the code makes them, for an instance
\* whose _metadata.chunkCount is oldCount
SaveWrites(dataString, oldCount) ==
    LET chunks == ChunkWrites(dataString, 0, 0)
    IN  chunks \o ClearWrites(Len(chunks), LoopLen(oldCount)) \o <<MetaWrite(Len(chunks))>>

\* a remove that clears the chunk slots and leaves the metadata slot as it is
RemoveWritesChunksOnly(pt, count) ==
    IF Truthy(SlotValue(pt.meta))
    THEN [q \in 1..LoopLen(count) |-> [slot |-> "chunk", j |-> q - 1, s |-> <<>>]]
    ELSE <<>>

\* remove(): the writes to pngText in the order the code makes them, for an
\* instance whose _metadata.chunkCount is count; none if no metadata is stored
RemoveWrites(pt, count) ==
    IF Truthy(SlotValue(pt.meta))
    THEN [q \in 1..LoopLen(count) |-> [slot |-> "chunk", j |-> q - 1, s |-> <<>>]]
         \o <<[slot |-> "meta", j |-> 0, s |-> <<>>]>>
    ELSE <<>>

\* one write of save() or remove() applied to pngText
ApplyWrite(pt, w) ==
    IF w.slot = "meta" THEN WriteMeta(pt, w.s) ELSE WriteChunk(pt, w.j, w.s)

\* the constructor without its try/catch: a parse error propagates to the caller
LoadNoCatch(pt, inDefaultData) ==
    LET defaults == mixin(<<>>, inDefaultData)
        dataString == SlotValue(pt.meta)
        savedMetadata == Parse(dataString.s)
        count == ChunkCountOf(savedMetadata)
        parsed == Parse(JoinChunks(pt, LoopLen(count)))
    IN  IF ~Truthy(dataString) THEN
            [threw |-> FALSE, data |-> defaults, chunkCount |-> JNum(1)]
        ELSE IF ~savedMetadata.ok THEN
            [threw |-> TRUE, data |-> defaults, chunkCount |-> JNum(1)]
        ELSE IF ~parsed.ok THEN
            [threw |-> TRUE, data |-> defaults, chunkCount |-> count]
        ELSE [threw |-> FALSE, data |-> mixin(defaults, parsed.m), chunkCount |-> count]

\* the constructor: the default data, then the stored data mixed in over it; a parse
\* error is caught and leaves what was set before it
Load(pt, inDefaultData) ==
    LET defaults == mixin(<<>>, inDefaultData)
        dataString == SlotValue(pt.meta)
        savedMetadata == Parse(dataString.s)
        count == ChunkCountOf(savedMetadata)
        parsed == Parse(JoinChunks(pt, LoopLen(count)))
    IN  IF ~Truthy(dataString) THEN
            [threw |-> FALSE, data |-> defaults, chunkCount |-> JNum(1)]
        ELSE IF ~savedMetadata.ok THEN
            [threw |-> FALSE, data |-> defaults, chunkCount |-> JNum(1)]
        ELSE IF ~parsed.ok THEN
            [threw |-> FALSE, data |-> defaults, chunkCount |-> count]
        ELSE [threw |-> FALSE, data |-> mixin(defaults, parsed.m), chunkCount |-> count]

-----------------------------------------------------------------------------
(* The values the callers use *)

\* a string of n characters
Pad(n) == [j \in 1..n |-> "x"]

\* lengths of the string stored in foo for which JSON.stringify gives exactly
\* one chunk, exactly MaxChunks - 1 chunks, and one character more than these:
\* {"foo":"..."} adds 10
PadLens ==
    {ChunkSize - 10, (MaxChunks - 1) * ChunkSize - 10, (MaxChunks - 1) * ChunkSize - 9}

FooValues == {JStr(Pad(n)) : n \in PadLens}

BazValues == {JStr(<<"h", "i">>)}

DefaultData == {<<>>, <<[k |-> KeyFoo, v |-> JNum(42)]>>}

\* no call in progress; again says that a save() follows a save() of the same
\* instance with no other call between them
Idle == [at |-> "idle", op |-> "none", self |-> 1, dataString |-> <<>>,
         oldCount |-> JUndefined, todo |-> <<>>, defaults |-> <<>>, threw |-> FALSE,
         again |-> FALSE]

InitDomStorage ==
    /\ pngText = [meta |-> Unwritten, chunk |-> [j \in 0..(MaxChunks - 1) |-> Unwritten]]
    /\ inst = [i \in Instances |-> [live |-> FALSE, data |-> <<>>, chunkCount |-> JUndefined]]
    /\ frame = Idle
    /\ calls = [save |-> 0, tamper |-> 0, remove |-> 0]

\* new DomStorage(Name, inDefaultData), kept by the caller as instance i
Construct(i, inDefaultData) ==
    /\ frame.at = "idle"
    /\ \A h \in Instances : h < i => inst[h].live
    /\ LET r == Load(getPngText, inDefaultData)
       IN  /\ inst' = [inst EXCEPT ![i] =
                          IF r.threw THEN @
                          ELSE [live |-> TRUE, data |-> r.data, chunkCount |-> r.chunkCount]]
           /\ frame' = [Idle EXCEPT !.op = "construct", !.self = i,
                                    !.defaults = inDefaultData, !.threw = r.threw]
    /\ UNCHANGED <<pngText, calls>>

\* the caller sets a property of instance i: settings.foo = "bar"
SetProp(i, k, v) ==
    /\ frame.at = "idle"
    /\ inst[i].live
    /\ calls.save + calls.tamper + calls.remove < MaxCalls
    /\ GetProp(inst[i].data, k) # v
    /\ inst' = [inst EXCEPT ![i].data = SetPropOf(@, k, v)]
    /\ frame' = Idle
    /\ UNCHANGED <<pngText, calls>>

\* save() is entered: dataString and the old chunk count are read
SaveStart(i) ==
    /\ frame.at = "idle"
    /\ inst[i].live
    /\ calls.save + calls.tamper + calls.remove < MaxCalls
    /\ LET dataString == Stringify(inst[i].data)
       IN  frame' = [Idle EXCEPT !.at = "save", !.op = "save", !.self = i,
                                 !.dataString = dataString,
                                 !.oldCount = inst[i].chunkCount,
                                 !.todo = SaveWrites(dataString, inst[i].chunkCount),
                                 !.again = (frame.op = "save" /\ frame.self = i)]
    /\ calls' = [calls EXCEPT !.save = @ + 1]
    /\ UNCHANGED <<pngText, inst>>

\* save() makes its next write; the write of the metadata also sets _metadata.chunkCount
SaveStep ==
    /\ frame.at = "save"
    /\ LET w == Head(frame.todo)
       IN  /\ pngText' = ApplyWrite(pngText, w)
           /\ inst' = IF w.slot = "meta"
                      THEN [inst EXCEPT ![frame.self].chunkCount = JNum(w.j)]
                      ELSE inst
    /\ frame' = [frame EXCEPT !.todo = Tail(@),
                              !.at = IF Len(frame.todo) = 1 THEN "idle" ELSE "save"]
    /\ UNCHANGED calls

\* remove() is entered: the metadata slot is read, and if nothing is stored
\* there remove() returns at once
RemoveStart(i) ==
    /\ frame.at = "idle"
    /\ inst[i].live
    /\ calls.save + calls.tamper + calls.remove < MaxCalls
    /\ LET todo == RemoveWrites(getPngText, inst[i].chunkCount)
       IN  frame' = [Idle EXCEPT !.at = IF Len(todo) > 0 THEN "remove" ELSE "idle",
                                 !.op = "remove", !.self = i,
                                 !.dataString = SlotValue(getPngText.meta).s,
                                 !.oldCount = inst[i].chunkCount,
                                 !.todo = todo]
    /\ calls' = [calls EXCEPT !.remove = @ + 1]
    /\ UNCHANGED <<pngText, inst>>

\* remove() makes its next write
RemoveStep ==
    /\ frame.at = "remove"
    /\ pngText' = ApplyWrite(pngText, Head(frame.todo))
    /\ frame' = [frame EXCEPT !.todo = Tail(@),
                              !.at = IF Len(frame.todo) = 1 THEN "idle" ELSE "remove"]
    /\ UNCHANGED <<inst, calls>>

\* strings another script may leave in the metadata slot
TamperMeta ==
    { <<"{">>, <<"5">>, Stringify(Metadata(JNum(MaxChunks))) }

\* another script writes dom.pngText directly: the metadata slot, or the first
\* chunk cut short
Tamper ==
    /\ frame.at = "idle"
    /\ calls.save + calls.tamper + calls.remove < MaxCalls
    /\ \/ \E s \in TamperMeta : pngText' = WriteMeta(pngText, s)
       \/ /\ pngText.chunk[0].def
          /\ Len(pngText.chunk[0].s) > 0
          /\ pngText' = WriteChunk(pngText, 0,
                           SubSeq(pngText.chunk[0].s, 1, Len(pngText.chunk[0].s) - 1))
    /\ calls' = [calls EXCEPT !.tamper = @ + 1]
    /\ frame' = Idle
    /\ UNCHANGED inst

NextDomStorage ==
    \/ \E i \in Instances, d \in DefaultData : Construct(i, d)
    \/ \E i \in Instances, v \in FooValues : SetProp(i, KeyFoo, v)
    \/ \E i \in Instances, v \in BazValues : SetProp(i, KeyBaz, v)
    \/ \E i \in Instances : SaveStart(i)
    \/ SaveStep
    \/ \E i \in Instances : RemoveStart(i)
    \/ RemoveStep
    \/ Tamper

-----------------------------------------------------------------------------
(* The document's layers *)

Null == 0

\* dom.getParentLayerNum(i), i counted from 0
getParentLayerNum(d, i) == d[i + 1].parent

\* whether layer j is layer i or below it in the document
RECURSIVE IsUnder(_, _, _, _)
IsUnder(d, j, i, fuel) ==
    \/ j = i
    \/ /\ fuel > 0
       /\ getParentLayerNum(d, j) >= 0
       /\ getParentLayerNum(d, j) < Len(d)
       /\ getParentLayerNum(d, j) # j
       /\ IsUnder(d, getParentLayerNum(d, j), i, fuel - 1)

\* from the 0-based positions kept, in order, the position-th one (1-based)
RECURSIVE NthKept(_, _, _)
NthKept(keep, from, nth) ==
    IF from \in keep
    THEN IF nth = 1 THEN from ELSE NthKept(keep, from + 1, nth - 1)
    ELSE NthKept(keep, from + 1, nth)

\* dom.deleteLayer(i): the host removes the layer and its sublayers; the layers
\* above move down and the parent numbers follow them
deleteLayer(d, i) ==
    LET keep == {j \in 0..(Len(d) - 1) : ~IsUnder(d, j, i, Len(d))}
        newPos(j) == Cardinality({h \in keep : h < j})
    IN  [q \in 1..Cardinality(keep) |->
            LET old == NthKept(keep, 0, q)
                p == getParentLayerNum(d, old)
            IN  [d[old + 1] EXCEPT !.parent = IF p \in keep THEN newPos(p) ELSE p]]

\* a layer's parent is lower in the list: the host's invariant
ParentsBelow(i) == (0 - 1)..(i - 1)

\* any parent number, also the layer's own or a higher one
ParentsAny(i) == (0 - 1)..(MaxLayers - 1)

\* the flat layer lists of n layers, named by their first position; wellFormed
\* lists keep the host's invariant
DomsOf(n, wellFormed) ==
    {d \in [1..n -> [name : 1..n, parent : (0 - 1)..(n - 1), web : BOOLEAN]] :
        \A q \in 1..n :
           /\ d[q].name = q
           /\ d[q].parent \in IF wellFormed THEN ParentsBelow(q - 1) ELSE ParentsAny(q - 1)}

-----------------------------------------------------------------------------
(* LayerTree and Layer *)

\* a constructor that leaves index at the prototype's -1
NewLayerNoIndex(index, parent) ==
    [index |-> 0 - 1, parent |-> parent, sublayerIndex |-> 0 - 1,
     _sublayers |-> <<>>, _stale |-> FALSE]

\* new Layer({index, parent, ...}): _sublayers is empty, _stale comes from the prototype
NewLayer(index, parent) ==
    [index |-> index, parent |-> parent, sublayerIndex |-> 0 - 1,
     _sublayers |-> <<>>, _stale |-> FALSE]

\* refresh() without the loop that sets the stale flags
MarkStaleSkipped(h, layers) == h

\* a loop that sets the stale flag of the first layer of the list only
MarkStaleFirstOnly(h, layers) ==
    [n \in 1..Len(h) |->
        IF Len(layers) > 0 /\ layers[1] = n THEN [h[n] EXCEPT !._stale = TRUE]
        ELSE h[n]]

\* forEach(this._layers, function(layer) { layer._stale = true; })
MarkStale(h, layers) ==
    [n \in 1..Len(h) |->
        IF \E q \in 1..Len(layers) : layers[q] = n THEN [h[n] EXCEPT !._stale = TRUE]
        ELSE h[n]]

\* a parent lookup without "|| this._root": undefined when _layers has no such entry
ParentOfNoRoot(t, parentLayerNum) ==
    IF parentLayerNum >= 0 /\ parentLayerNum < Len(t._layers)
    THEN t._layers[parentLayerNum + 1]
    ELSE Null

\* this._layers[parentLayerNum] || this._root
ParentOf(t, parentLayerNum) ==
    IF parentLayerNum >= 0 /\ parentLayerNum < Len(t._layers)
    THEN t._layers[parentLayerNum + 1]
    ELSE t._root

\* the body of the loop of refresh() skips the layer and leaves the loop
RefreshBreaks(t, d, i) ==
    t._ignoreWebLayers /\ d[i + 1].web /\ getParentLayerNum(d, i) = 0 - 1

\* a pass of the loop that reads the parent's _sublayers.length after the push
RefreshHeapPushFirst(h, t, d, i) ==
    LET parent == ParentOf(t, getParentLayerNum(d, i))
        layer == [NewLayer(i, parent) EXCEPT
                     !.sublayerIndex = Len(h[parent]._sublayers) + 1]
        id == Len(h) + 1
    IN  [Append(h, layer) EXCEPT ![parent]._sublayers = Append(@, id)]

\* the heap after one pass of the loop of refresh() for layer i: the new Layer is
\* the last object, with its sublayerIndex, and is pushed on its parent's _sublayers
RefreshHeap(h, t, d, i) ==
    LET parent == ParentOf(t, getParentLayerNum(d, i))
        layer == [NewLayer(i, parent) EXCEPT !.sublayerIndex = Len(h[parent]._sublayers)]
        id == Len(h) + 1
    IN  [Append(h, layer) EXCEPT ![parent]._sublayers = Append(@, id)]

\* get isTopLayer: this.parent.index == -1
isTopLayer(h, n) == h[h[n].parent].index = 0 - 1

\* while (currentLayer._sublayers.length > 0) currentLayer = currentLayer._sublayers[0]
RECURSIVE Lowest(_, _)
Lowest(h, n) == IF Len(h[n]._sublayers) > 0 THEN Lowest(h, h[n]._sublayers[1]) ELSE n

\* a layerAbove that returns the sibling above without going down into it
layerAboveNoDrill(h, n) ==
    LET parent == h[h[n].parent]
    IN  IF h[n].sublayerIndex + 1 < Len(parent._sublayers)
        THEN parent._sublayers[h[n].sublayerIndex + 2]
        ELSE IF isTopLayer(h, n) THEN Null ELSE h[n].parent

\* get layerAbove, Null for null
layerAbove(h, n) ==
    LET parent == h[h[n].parent]
    IN  IF h[n].sublayerIndex + 1 < Len(parent._sublayers)
        THEN Lowest(h, parent._sublayers[h[n].sublayerIndex + 2])
        ELSE IF isTopLayer(h, n) THEN Null ELSE h[n].parent

\* a loop that looks for a sibling below the layer itself and not below its parents
SiblingBelowNoClimb(h, n) ==
    IF h[n].parent = Null THEN Null
    ELSE IF h[n].sublayerIndex > 0 THEN h[h[n].parent]._sublayers[h[n].sublayerIndex]
    ELSE Null

\* the loop of layerBelow: up the parents to the first layer that has a sibling below
RECURSIVE SiblingBelow(_, _)
SiblingBelow(h, n) ==
    IF h[n].parent = Null THEN Null
    ELSE IF h[n].sublayerIndex > 0 THEN h[h[n].parent]._sublayers[h[n].sublayerIndex]
    ELSE SiblingBelow(h, h[n].parent)

\* a layerBelow that takes the first entry of _sublayers, not the last
layerBelowFirstChild(h, n) ==
    IF Len(h[n]._sublayers) > 0 THEN h[n]._sublayers[1]
    ELSE SiblingBelow(h, n)

\* get layerBelow, Null for null
layerBelow(h, n) ==
    IF Len(h[n]._sublayers) > 0 THEN h[n]._sublayers[Len(h[n]._sublayers)]
    ELSE SiblingBelow(h, n)

\* a topLayers in the order of alertLayers: the highest top layer first
topLayersReversed(h, t) ==
    [q \in 1..Len(h[t._root]._sublayers) |->
        h[t._root]._sublayers[Len(h[t._root]._sublayers) + 1 - q]]

\* get topLayers: [].concat(this._root.sublayers), a copy of the root's _sublayers
topLayers(h, t) == h[t._root]._sublayers

\* the loop of topLayerAncestor; Null when it takes more than fuel passes, or
\* reads isTopLayer of a Layer whose parent is null
RECURSIVE TopLayerWalk(_, _, _)
TopLayerWalk(h, layer, fuel) ==
    IF fuel = 0 \/ h[layer].parent = Null THEN Null
    ELSE IF isTopLayer(h, layer) THEN layer
    ELSE TopLayerWalk(h, h[layer].parent, fuel - 1)

\* a topLayerAncestor that returns the layer itself without the loop
topLayerAncestorSelf(h, n) == n

\* get topLayerAncestor: while (!layer.isTopLayer) layer = layer.parent
topLayerAncestor(h, n) == TopLayerWalk(h, n, Len(h))

\* array[k] for k counted from 0: Null (undefined) when k is out of bounds
ArrayAt(array, k) == IF k >= 0 /\ k < Len(array) THEN array[k + 1] ELSE Null

\* get topLayerAbove
topLayerAbove(h, t, n) ==
    ArrayAt(topLayers(h, t), h[topLayerAncestor(h, n)].sublayerIndex + 1)

\* a topLayerBelow for which index -1 is the last entry of the array
topLayerBelowWraps(h, t, n) ==
    LET k == h[topLayerAncestor(h, n)].sublayerIndex - 1
    IN  IF k < 0 THEN ArrayAt(topLayers(h, t), Len(topLayers(h, t)) + k)
        ELSE ArrayAt(topLayers(h, t), k)

\* get topLayerBelow
topLayerBelow(h, t, n) ==
    ArrayAt(topLayers(h, t), h[topLayerAncestor(h, n)].sublayerIndex - 1)

Accessors ==
    {"index", "name", "layer", "parent", "sublayers", "elements", "visible", "locked",
     "isTopLayer", "topLayerAncestor", "topLayerAbove", "topLayerBelow",
     "layerAbove", "layerBelow"}

\* how reading accessor a of the Layer object n ends: with a value, with the string
\* thrown for a stale layer, with a TypeError for a property of undefined or null,
\* or with the InternalError of a recursion that does not end. Only the getter
\* layer tests _stale, and the string it throws is built from this.name, which for
\* index > -1 reads this.layer again
AccessorOutcome(a, h, d, n) ==
    LET viaLayer == IF ~h[n]._stale THEN "value"
                    ELSE IF h[n].index > 0 - 1 THEN "InternalError" ELSE "stale"
        inDom == h[n].index >= 0 /\ h[n].index < Len(d)
    IN  CASE a = "layer" -> viaLayer
          [] a = "name" ->
                IF h[n].index > 0 - 1
                THEN IF viaLayer # "value" THEN viaLayer
                     ELSE IF inDom THEN "value" ELSE "TypeError"
                ELSE "value"
          [] a = "elements" -> IF inDom THEN "value" ELSE "TypeError"
          [] a \in {"visible", "locked"} ->
                IF h[n].index = 0 - 1 \/ inDom THEN "value" ELSE "TypeError"
          [] a \in {"isTopLayer", "topLayerAncestor", "topLayerAbove",
                    "topLayerBelow", "layerAbove"} ->
                IF h[n].parent = Null THEN "TypeError" ELSE "value"
          [] OTHER -> "value"

InitTree(wellFormed) ==
    /\ dom \in UNION {DomsOf(n, wellFormed) : n \in 1..MaxLayers}
    /\ heap = <<>>
    /\ tree = [built |-> FALSE, _layers |-> <<>>, _root |-> Null, _ignoreWebLayers |-> FALSE]
    /\ rf = [at |-> "idle", i |-> 0, count |-> 0]

\* refresh() up to its loop: the old layers go stale, _layers is emptied, a new root is made
RefreshBegin(t, count) ==
    /\ heap' = Append(IF t.built THEN MarkStale(heap, t._layers) ELSE heap,
                      NewLayer(0 - 1, Null))
    /\ tree' = [t EXCEPT !.built = TRUE, !._layers = <<>>, !._root = Len(heap) + 1]
    /\ rf' = [at |-> IF Len(dom') > 0 THEN "loop" ELSE "idle", i |-> 0, count |-> count]

\* new LayerTree(dom, inIgnoreWebLayers)
NewLayerTree(inIgnoreWebLayers) ==
    /\ rf.at = "idle"
    /\ ~tree.built
    /\ dom' = dom
    /\ RefreshBegin([tree EXCEPT !._ignoreWebLayers = inIgnoreWebLayers], rf.count)

\* tree.refresh() called by the user of the tree
Refresh ==
    /\ rf.at = "idle"
    /\ tree.built
    /\ rf.count < MaxRefresh
    /\ dom' = dom
    /\ RefreshBegin(tree, rf.count + 1)

\* one pass of the loop of refresh(); were the new layer's parent undefined,
\* layer.parent._sublayers would throw a TypeError out of refresh()
RefreshStep ==
    /\ rf.at = "loop"
    /\ IF RefreshBreaks(tree, dom, rf.i)
       THEN /\ rf' = [rf EXCEPT !.at = "idle"]
            /\ UNCHANGED <<heap, tree>>
       ELSE IF ParentOf(tree, getParentLayerNum(dom, rf.i)) = Null
       THEN /\ rf' = [rf EXCEPT !.at = "threw"]
            /\ UNCHANGED <<heap, tree>>
       ELSE /\ heap' = RefreshHeap(heap, tree, dom, rf.i)
            /\ tree' = [tree EXCEPT !._layers = Append(@, Len(heap) + 1)]
            /\ rf' = [rf EXCEPT !.i = @ + 1,
                                !.at = IF rf.i + 1 < Len(dom) THEN "loop" ELSE "idle"]
    /\ UNCHANGED dom

\* layer.remove() on the Layer object n: dom.deleteLayer(this.index), then refresh()
LayerRemove(n) ==
    /\ rf.at = "idle"
    /\ tree.built
    /\ rf.count < MaxRefresh
    /\ heap[n].index >= 0
    /\ heap[n].index < Len(dom)
    /\ dom' = deleteLayer(dom, heap[n].index)
    /\ RefreshBegin(tree, rf.count + 1)

\* the caller deletes a layer through the host's API, without telling the tree
DomDeleteLayer(i) ==
    /\ rf.at = "idle"
    /\ tree.built
    /\ dom' = deleteLayer(dom, i)
    /\ UNCHANGED <<heap, tree, rf>>

NextTree ==
    \/ \E b \in BOOLEAN : NewLayerTree(b)
    \/ Refresh
    \/ RefreshStep
    \/ \E n \in 1..Len(heap) : LayerRemove(n)
    \/ \E i \in 0..(Len(dom) - 1) : DomDeleteLayer(i)

-----------------------------------------------------------------------------
(* The functions of the layers module *)

\* the name the host gives the k-th layer made: "Layer k"
LayerName(k) == <<"L", "a", "y", "e", "r", " ">> \o NumToStr(k)

\* the layer object dom.layers[i] as a value
JLayer(i) == [t |-> "object", s |-> <<>>, n |-> i]

\* the flat layer lists of n layers that keep the host's invariant and in
\* which several layers may have the same name
NamedDomsOf(n) ==
    {d \in [1..n -> [name : 1..n, parent : (0 - 1)..(n - 1), web : {FALSE}]] :
        \A q \in 1..n : d[q].parent \in ParentsBelow(q - 1)}

\* indexOfProperty(inItems, "name", inValue): forEach stops at the first item
\* whose name is inValue; -1 if there is none
indexOfProperty(inItems, inValue) ==
    Least({q - 1 : q \in {h \in 1..Len(inItems) : LayerName(inItems[h].name) = inValue}},
          0 - 1)

\* findLayer(inArray, inIndex): the element of the array at the index, or at
\* the index of the first element of that name; inArray[-1] is undefined
findLayer(inArray, inIndex) ==
    LET index == IF inIndex.t = "string" THEN indexOfProperty(inArray, inIndex.s)
                 ELSE inIndex.n
    IN  IF index >= 0 /\ index < Len(inArray) THEN JLayer(index) ELSE JUndefined

\* layers.getLayerIndexByName(inLayerName, inDom)
getLayerIndexByName(inLayerName, inDom) == findLayer(inDom, JStr(inLayerName))

\* the earlier definition of layers.getLayerIndexByName in the same file
getLayerIndexByNameEarlier(inLayerName, inDom) ==
    JNum(indexOfProperty(inDom, inLayerName))

\* an array that is not reversed
NotReversed(array) == array

\* array.reverse()
Reverse(array) == [q \in 1..Len(array) |-> array[Len(array) + 1 - q]]

\* the loop of refresh() run to its end, from layer i on
RECURSIVE BuildLoop(_, _, _, _)
BuildLoop(h, t, d, i) ==
    IF i >= Len(d) \/ RefreshBreaks(t, d, i) THEN [heap |-> h, tree |-> t]
    ELSE BuildLoop(RefreshHeap(h, t, d, i),
                   [t EXCEPT !._layers = Append(@, Len(h) + 1)], d, i + 1)

\* new LayerTree(inDom): a tree of its own, made of Layer objects of its own
BuiltTree(d) ==
    BuildLoop(<<NewLayer(0 - 1, Null)>>,
              [built |-> TRUE, _layers |-> <<>>, _root |-> 1, _ignoreWebLayers |-> FALSE],
              d, 0)

FourSpaces == <<" ", " ", " ", " ">>

\* getLayerText(inLayer, inIndent) of alertLayers, and its calls for the
\* layers of a list one after the other
RECURSIVE getLayerText(_, _, _, _), LayerTexts(_, _, _, _)
getLayerText(h, d, inLayer, inIndent) ==
    inIndent \o NumToStr(h[inLayer].index) \o <<":", " ">>
        \o LayerName(d[h[inLayer].index + 1].name) \o <<"\n">>
        \o LayerTexts(h, d, Reverse(h[inLayer]._sublayers), inIndent \o FourSpaces)

LayerTexts(h, d, list, inIndent) ==
    IF Len(list) = 0 THEN <<>>
    ELSE getLayerText(h, d, list[1], inIndent) \o LayerTexts(h, d, Tail(list), inIndent)

\* layers.alertLayers(inDom, true): the string it returns
alertLayers(d) ==
    LET b == BuiltTree(d)
    IN  LayerTexts(b.heap, d, Reverse(topLayers(b.heap, b.tree)), <<>>)

NoCall == [fn |-> "none", arg |-> <<>>, val |-> JUndefined]

\* a script calls layers.getLayerIndexByName(name, dom)
GetLayerIndexByName(name) ==
    /\ out' = [fn |-> "getLayerIndexByName", arg |-> name,
               val |-> getLayerIndexByName(name, dom)]
    /\ UNCHANGED <<dom, heap, tree, rf>>

\* a script calls layers.alertLayers(dom, true)
AlertLayers ==
    /\ out' = [fn |-> "alertLayers", arg |-> <<>>, val |-> JStr(alertLayers(dom))]
    /\ UNCHANGED <<dom, heap, tree, rf>>

\* a script deletes a layer of the document
DeleteLayer(i) ==
    /\ Len(dom) > 1
    /\ dom' = deleteLayer(dom, i)
    /\ Len(dom') > 0
    /\ out' = NoCall
    /\ UNCHANGED <<heap, tree, rf>>

NextDocument ==
    \/ \E k \in 1..MaxLayers : GetLayerIndexByName(LayerName(k))
    \/ AlertLayers
    \/ \E i \in 0..(Len(dom) - 1) : DeleteLayer(i)

-----------------------------------------------------------------------------
(* Two DomStorage instances of one name *)

\* the instances a script and a second script hold for the same name
SharedInstances == {1, 2}

\* what the instances store: one chunk, or ChunkSize characters more
SharedValues == {JStr(<<"b", "a", "r">>), JStr(Pad(ChunkSize))}

InitShared ==
    /\ pngText = [meta |-> Unwritten, chunk |-> [j \in 0..(MaxChunks - 1) |-> Unwritten]]
    /\ inst = [i \in SharedInstances |->
                 [live |-> FALSE, data |-> <<>>, chunkCount |-> JUndefined]]
    /\ frame = Idle
    /\ calls = [save |-> 0, tamper |-> 0, remove |-> 0]

NextShared ==
    \/ \E i \in SharedInstances : Construct(i, <<>>)
    \/ \E i \in SharedInstances, v \in SharedValues : SetProp(i, KeyFoo, v)
    \/ \E i \in SharedInstances : SaveStart(i)
    \/ SaveStep
    \/ \E i \in SharedInstances : RemoveStart(i)
    \/ RemoveStep

-----------------------------------------------------------------------------
(* DomStorage on a document of several pages *)

\* a pngText with nothing stored
NoPngText == [meta |-> Unwritten, chunk |-> [j \in 0..(MaxChunks - 1) |-> Unwritten]]

\* metadata.chunkCount of the metadata of a page
RecordCount(page) == LoopLen(ChunkCountOf(Parse(page.meta.s)))

\* the first page after the metadata and count chunks of a page are copied to it
CopiedTo(first, page, count) ==
    [meta |-> page.meta,
     chunk |-> [j \in 0..(MaxChunks - 1) |->
                   IF j < count THEN page.chunk[j] ELSE first.chunk[j]]]

\* a page after its metadata and count of its chunks are set to undefined
ClearedPage(page, count) ==
    [meta |-> Unwritten,
     chunk |-> [j \in 0..(MaxChunks - 1) |-> IF j < count THEN Unwritten ELSE page.chunk[j]]]

\* the copy of page i to the first page, for the chunkCount of its metadata
CopyPageCount(first, others, i, count) ==
    [first |-> CopiedTo(first, others[i], count),
     others |-> [others EXCEPT ![i] = ClearedPage(@, count)]]

\* a copy that leaves page i as it is
CopyPageNoClear(first, others, i) ==
    [first |-> CopiedTo(first, others[i], RecordCount(others[i])), others |-> others]

\* the body of the try of copyFromOtherPage for page i: the metadata and the
\* chunks below its chunkCount are copied to the first page and set to
\* undefined on page i
CopyPage(first, others, i) == CopyPageCount(first, others, i, RecordCount(others[i]))

\* the result of the loop of copyFromOtherPage that ends at page i
LoopEnd(copied, i) == [first |-> copied.first, others |-> copied.others, pageNum |-> i]

\* the loop of copyFromOtherPage from page i on: the first page whose metadata
\* is truthy and parses is copied and ends the loop; pageNum is the page the
\* page setter was last given
RECURSIVE CopyLoop(_, _, _, _)
CopyLoop(first, others, i, pageNum) ==
    IF i > Len(others) THEN [first |-> first, others |-> others, pageNum |-> pageNum]
    ELSE IF Truthy(SlotValue(others[i].meta)) /\ Parse(others[i].meta.s).ok
         THEN LoopEnd(CopyPage(first, others, i), i)
         ELSE CopyLoop(first, others, i + 1, i)

\* pageSetter.pageNum = originalPageNum after the loop
RestorePage(looped, originalPageNum) ==
    [first |-> looped.first, others |-> looped.others,
     lastPage |-> looped.pageNum, pageNum |-> originalPageNum]

\* copyFromOtherPage(): the pages after it, the last page its loop went to,
\* and the page the page setter is left on, which is originalPageNum
copyFromOtherPage(first, others, originalPageNum) ==
    RestorePage(CopyLoop(first, others, 1, 0), originalPageNum)

\* the writes of a save() applied one after the other
RECURSIVE ApplyWrites(_, _)
ApplyWrites(pt, todo) ==
    IF Len(todo) = 0 THEN pt ELSE ApplyWrites(ApplyWrite(pt, Head(todo)), Tail(todo))

\* the pngText of a page on which an instance with the properties obj was saved
SavedPage(obj) == ApplyWrites(NoPngText, SaveWrites(Stringify(obj), JNum(1)))

\* what was saved on the pages: one chunk, or two
PageObjects ==
    { <<[k |-> KeyFoo, v |-> JStr(<<"b", "a", "r">>)]>>,
      <<[k |-> KeyBaz, v |-> JStr(Pad(ChunkSize))]>> }

\* a page has nothing stored, or a record, or metadata that does not parse
PageContents ==
    {NoPngText, WriteMeta(NoPngText, <<"{">>)} \cup {SavedPage(obj) : obj \in PageObjects}

\* one page, on which the document is
InitPages ==
    /\ otherPages = <<>>
    /\ currentPageNum = 0

\* a document of up to MaxPages pages, on any of them; the first page has
\* nothing stored, or had metadata that remove() has set to ""
InitSeveralPages ==
    /\ pngText \in {NoPngText, WriteMeta(NoPngText, <<>>)}
    /\ inst = [i \in Instances |-> [live |-> FALSE, data |-> <<>>, chunkCount |-> JUndefined]]
    /\ frame = Idle
    /\ calls = [save |-> 0, tamper |-> 0, remove |-> 0]
    /\ otherPages \in UNION { [1..n -> PageContents] : n \in 0..(MaxPages - 1) }
    /\ currentPageNum \in 0..Len(otherPages)

\* the pages after the constructor has looked for the metadata: copied from
\* another page if the first page has none
CheckAllPages(first, others, pageNum) ==
    IF ~Truthy(SlotValue(first.meta))
    THEN copyFromOtherPage(first, others, pageNum)
    ELSE [first |-> first, others |-> others, lastPage |-> 0, pageNum |-> pageNum]

\* the constructor ends with the pages as in copied and r loaded from them
ConstructLoaded(i, inDefaultData, copied, r) ==
    /\ pngText' = copied.first
    /\ otherPages' = copied.others
    /\ currentPageNum' = copied.pageNum
    /\ inst' = [inst EXCEPT ![i] =
                   IF r.threw THEN @
                   ELSE [live |-> TRUE, data |-> r.data, chunkCount |-> r.chunkCount]]
    /\ frame' = [Idle EXCEPT !.op = "construct", !.self = i,
                             !.defaults = inDefaultData, !.threw = r.threw]
    /\ out' = [fn |-> "DomStorage", arg |-> <<inDefaultData, TRUE>>,
               val |-> JUndefined, lastPage |-> copied.lastPage]

\* the constructor loads from the first page of the pages in copied
ConstructCopied(i, inDefaultData, copied) ==
    ConstructLoaded(i, inDefaultData, copied, Load(copied.first, inDefaultData))

\* new DomStorage(Name, inDefaultData, true), kept by the caller as instance i
ConstructCheckAllPages(i, inDefaultData) ==
    /\ frame.at = "idle"
    /\ ConstructCopied(i, inDefaultData,
                       CheckAllPages(getPngText, otherPages, currentPageNum))
    /\ UNCHANGED calls

\* the user goes to page k
GoToPage(k) ==
    /\ frame.at = "idle"
    /\ k # currentPageNum
    /\ currentPageNum' = k
    /\ out' = NoCall
    /\ UNCHANGED <<dsVars, otherPages>>

\* the user reorders the pages: page k becomes the first page
MovePageFirst(k) ==
    /\ frame.at = "idle"
    /\ pngText' = otherPages[k]
    /\ otherPages' = [otherPages EXCEPT ![k] = pngText]
    /\ out' = NoCall
    /\ UNCHANGED <<inst, frame, calls, currentPageNum>>

NextPages ==
    \/ \E i \in Instances, d \in DefaultData : ConstructCheckAllPages(i, d)
    \/ \E k \in 0..Len(otherPages) : GoToPage(k)
    \/ \E k \in 1..Len(otherPages) : MovePageFirst(k)

-----------------------------------------------------------------------------
(* The prefs module: get, set and PrefsStorage *)

\* the null of JavaScript as a value
JNull == [t |-> "null", s |-> <<>>, n |-> 0]

\* an object as a value; m holds its properties
JObject(m) == [t |-> "object", m |-> m]

NullText == <<"n", "u", "l", "l">>

\* fw.getPref(inName) joined into a string: the entry, or null if there is none
getPref(file) == IF file.def THEN file.s ELSE NullText

\* eval("(" + text + ")") of a text that is null or JSON; ok is FALSE if it throws
Eval(text) ==
    IF text = NullText THEN [ok |-> TRUE, t |-> "null", m |-> <<>>]
    ELSE Parse(text)

\* JSON.stringify(inPrefs) of an object or of null
StringifyPrefs(inPrefs) == IF inPrefs.t = "null" THEN NullText ELSE Stringify(inPrefs.m)

\* the loop of get(): the properties of inDefaults that prefs does not have
\* are added to it
RECURSIVE AddMissing(_, _)
AddMissing(prefs, inDefaults) ==
    IF Len(inDefaults) = 0 THEN prefs
    ELSE AddMissing(IF HasKey(prefs, inDefaults[1].k) THEN prefs
                    ELSE SetPropOf(prefs, inDefaults[1].k, inDefaults[1].v),
                    Tail(inDefaults))

\* prefs = eval(...) || {}, and prefs = inDefaults if eval throws: null and
\* other falsy values give {}, an error of eval gives inDefaults
EvalOrDefaults(value, inDefaults) ==
    IF ~value.ok THEN inDefaults
    ELSE IF value.t = "object" THEN value.m
    ELSE <<>>

\* a get whose loop sets every property of inDefaults
getDefaultsOverride(file, inDefaults) ==
    mixin(EvalOrDefaults(Eval(getPref(file)), inDefaults), inDefaults)

\* get(inName, inDefaults): the properties of the object it returns
get(file, inDefaults) ==
    AddMissing(EvalOrDefaults(Eval(getPref(file)), inDefaults), inDefaults)

\* set(inName, inPrefs): the entry after fw.setPref(inName, JSON.stringify(inPrefs))
set(inPrefs) == Written(StringifyPrefs(inPrefs))

\* the objects scripts keep as preferences, and the default data they give
PrefData ==
    { <<>>,
      <<[k |-> KeyFoo, v |-> JStr(<<"b", "a", "r">>)]>>,
      <<[k |-> KeyFoo, v |-> JStr(<<"b", "a", "r">>)], [k |-> KeyBaz, v |-> JNum(7)]>>,
      <<[k |-> KeyBaz, v |-> JNum(7)]>> }

PrefDefaults ==
    { <<>>,
      <<[k |-> KeyFoo, v |-> JNum(42)]>>,
      <<[k |-> KeyFoo, v |-> JNum(42)], [k |-> KeyBaz, v |-> JStr(<<"h", "i">>)]>> }

InitPrefs ==
    /\ prefFile = Unwritten
    /\ prefObj = [live |-> FALSE, data |-> <<>>]

\* a script calls prefs.get(name, inDefaults)
PrefsGet(inDefaults) ==
    /\ out' = [fn |-> "prefs.get", arg |-> inDefaults,
               val |-> JObject(get(prefFile, inDefaults))]
    /\ UNCHANGED prefVars

\* a script calls prefs.set(name, inPrefs)
PrefsSet(inPrefs) ==
    /\ prefFile' = set(inPrefs)
    /\ out' = [fn |-> "prefs.set", arg |-> inPrefs, val |-> JUndefined]
    /\ UNCHANGED prefObj

\* new PrefsStorage(name, inDefaults): mixin(this, get(_metadata.name, inDefaults))
NewPrefsStorage(inDefaults) ==
    /\ prefObj' = [live |-> TRUE, data |-> mixin(<<>>, get(prefFile, inDefaults))]
    /\ out' = [fn |-> "PrefsStorage", arg |-> inDefaults, val |-> JUndefined]
    /\ UNCHANGED prefFile

\* the caller sets a property of the PrefsStorage instance
PrefsSetProp(k, v) ==
    /\ prefObj.live
    /\ prefObj' = [prefObj EXCEPT !.data = SetPropOf(@, k, v)]
    /\ out' = NoCall
    /\ UNCHANGED prefFile

\* save() of the PrefsStorage instance: set(_metadata.name, this)
PrefsSave ==
    /\ prefObj.live
    /\ prefFile' = set(JObject(prefObj.data))
    /\ out' = [fn |-> "PrefsStorage.save", arg |-> <<>>, val |-> JUndefined]
    /\ UNCHANGED prefObj

\* the truth value of a value that may be an object or null: every object,
\* the empty one too, is truthy
TruthyValue(v) ==
    CASE v.t = "object" -> TRUE
      [] v.t = "null" -> FALSE
      [] OTHER -> Truthy(v)

\* remove() of the PrefsStorage instance: if (get(_metadata.name)) set(_metadata.name, null)
PrefsRemove ==
    /\ prefObj.live
    /\ prefFile' = IF TruthyValue(JObject(get(prefFile, <<>>))) THEN set(JNull) ELSE prefFile
    /\ out' = [fn |-> "PrefsStorage.remove", arg |-> <<>>, val |-> JUndefined]
    /\ UNCHANGED prefObj

\* a text that does not evaluate is left in the entry by something else
PrefsCorrupt ==
    /\ prefFile' = Written(<<"{">>)
    /\ out' = NoCall
    /\ UNCHANGED prefObj

NextPrefs ==
    \/ \E d \in PrefDefaults : PrefsGet(d)
    \/ \E m \in PrefData : PrefsSet(JObject(m))
    \/ PrefsSet(JNull)
    \/ \E d \in PrefDefaults : NewPrefsStorage(d)
    \/ \E m \in PrefData : \E q \in 1..Len(m) : PrefsSetProp(m[q].k, m[q].v)
    \/ PrefsSave
    \/ PrefsRemove
    \/ PrefsCorrupt

-----------------------------------------------------------------------------
(* The reserved names save and remove *)

\* instance[k] = v: save and remove have only a getter, so that an
\* assignment to them sets nothing
Assign(data, k, v) == IF k \in ReservedNames THEN data ELSE SetPropOf(data, k, v)

\* default data and stored data with properties named save and remove
ReservedDefaults ==
    { <<>>,
      <<[k |-> KeyRemove, v |-> JNum(1)], [k |-> KeyBaz, v |-> JStr(<<"h", "i">>)]>> }

ReservedStored ==
    { <<[k |-> KeySave, v |-> JStr(<<"x">>)], [k |-> KeyFoo, v |-> JStr(<<"b", "a", "r">>)]>>,
      <<[k |-> KeyFoo, v |-> JNum(7)], [k |-> KeyRemove, v |-> JNum(2)]>> }

\* something else has stored the record of an object under the name
StoreRecord(obj) ==
    /\ frame.at = "idle"
    /\ pngText # SavedPage(obj)
    /\ pngText' = SavedPage(obj)
    /\ frame' = Idle
    /\ UNCHANGED <<inst, calls>>

\* the caller assigns to a property of instance i; the assignment to a
\* property that has only a getter throws or is ignored
AssignProp(i, k, v) ==
    /\ frame.at = "idle"
    /\ inst[i].live
    /\ inst' = [inst EXCEPT ![i].data = Assign(@, k, v)]
    /\ \E threw \in BOOLEAN :
          /\ threw => k \in ReservedNames
          /\ frame' = [Idle EXCEPT !.op = "assign", !.self = i, !.threw = threw]
    /\ UNCHANGED <<pngText, calls>>

\* the caller assigns to a property of the PrefsStorage instance
PrefsAssignProp(k, v) ==
    /\ prefObj.live
    /\ prefObj' = [prefObj EXCEPT !.data = Assign(@, k, v)]
    /\ out' = [fn |-> "PrefsStorage.assign", arg |-> <<k, v>>, val |-> JUndefined]
    /\ UNCHANGED prefFile

NextReserved ==
    \/ /\ \/ \E i \in Instances, d \in ReservedDefaults : Construct(i, d)
          \/ \E obj \in ReservedStored : StoreRecord(obj)
          \/ \E i \in Instances, k \in ReservedNames : AssignProp(i, k, JNum(7))
       /\ UNCHANGED <<out, prefVars>>
    \/ /\ \/ \E d \in ReservedDefaults : NewPrefsStorage(d)
          \/ \E obj \in ReservedStored : PrefsSet(JObject(obj))
          \/ \E k \in ReservedNames : PrefsAssignProp(k, JNum(7))
       /\ UNCHANGED dsVars

-----------------------------------------------------------------------------
(* The path functions of files.js and of fwrequire.js *)

\* path.slice(-1) and nextArgument[0]: the empty string and undefined are not "/"
EndsWithSlash(str) == Len(str) > 0 /\ str[Len(str)] = "/"
StartsWithSlash(str) == Len(str) > 0 /\ str[1] = "/"

\* the loop of files.path from argument i on
RECURSIVE filesPathLoop(_, _, _)
filesPathLoop(acc, args, i) ==
    IF i > Len(args) THEN acc
    ELSE filesPathLoop((IF ~EndsWithSlash(acc) /\ ~StartsWithSlash(args[i])
                        THEN acc \o <<"/">> ELSE acc) \o args[i],
                       args, i + 1)

\* files.path(arguments)
filesPath(args) == filesPathLoop(args[1], args, 2)

\* the loop of path() of fwrequire.js from argument i on
RECURSIVE pathLoop(_, _, _)
pathLoop(acc, args, i) ==
    IF i > Len(args) THEN acc
    ELSE pathLoop((IF ~EndsWithSlash(acc) /\ ~StartsWithSlash(args[i])
                       THEN acc \o <<"/">>
                   ELSE IF EndsWithSlash(acc) /\ StartsWithSlash(args[i])
                       THEN SubSeq(acc, 1, Len(acc) - 1)
                   ELSE acc) \o args[i],
                  args, i + 1)

\* path(arguments) of fwrequire.js
path(args) == pathLoop(args[1], args, 2)

\* the arguments: names with and without a slash at either end
Segments == { <<"a">>, <<"b", "/">>, <<"/", "c">>, <<"/", "d", "/">> }

ArgumentLists == UNION { [1..n -> Segments] : n \in 1..MaxArgs }

\* a script calls files.path
FilesPath(args) ==
    /\ out' = [fn |-> "files.path", arg |-> args, val |-> JStr(filesPath(args))]
    /\ UNCHANGED <<dsVars, treeVars, prefVars, pageVars, ctxVars>>

\* fwrequire.js calls its path()
RequirePath(args) ==
    /\ out' = [fn |-> "path", arg |-> args, val |-> JStr(path(args))]
    /\ UNCHANGED <<dsVars, treeVars, prefVars, pageVars, ctxVars>>

NextPath ==
    \/ \E args \in ArgumentLists : FilesPath(args)
    \/ \E args \in ArgumentLists : RequirePath(args)

-----------------------------------------------------------------------------
(* The Context objects of fwrequire.js *)

\* the globals that require.js creates
GlobalNames == {"define", "require", "requirejs"}

\* the contexts: one per path of an extension
Contexts == {1, 2}

\* the values of the globals: undefined, the delegator of setupDelegator, the
\* functions the require.js of a context creates, the object loadRequire
\* assigns to require, and an object a module assigns
Undefined == <<"undefined", 0>>
DelegateRequire == <<"delegateRequire", 0>>
RequireConfig == <<"{baseUrl}", 0>>
Module == <<"module", 0>>
Library(c) == <<"require.js", c>>

IsFunction(v) == v[1] \in {"delegateRequire", "require.js"}

\* a hash without properties; has is the set of its names
EmptyHash == [has |-> {}, v |-> [n \in GlobalNames |-> Undefined]]

HashSet(h, name, value) == [has |-> h.has \cup {name}, v |-> [h.v EXCEPT ![name] = value]]

\* a Context as setupContext() creates it
NewContext ==
    [globals |-> EmptyHash, preservedGlobals |-> EmptyHash,
     preservedGlobalsStack |-> <<>>, loadedRequire |-> FALSE]

\* loadGlobal(inGlobalName) of context cx with the global scope G
loadGlobal(cx, G, inGlobalName) ==
    LET first == inGlobalName \notin cx.preservedGlobals.has
        preserved == IF first THEN HashSet(cx.preservedGlobals, inGlobalName, G[inGlobalName])
                     ELSE cx.preservedGlobals
        globals == IF first /\ inGlobalName \notin cx.globals.has
                   THEN HashSet(cx.globals, inGlobalName, Undefined)
                   ELSE cx.globals
    IN  [cx |-> [cx EXCEPT !.preservedGlobals = preserved, !.globals = globals],
         G |-> [G EXCEPT ![inGlobalName] = globals.v[inGlobalName]]]

\* loadGlobal called for each of the names, one after the other
RECURSIVE LoadGlobals(_, _, _)
LoadGlobals(cx, G, names) ==
    IF names = {} THEN [cx |-> cx, G |-> G]
    ELSE LET name == CHOOSE n \in names : TRUE
             r == loadGlobal(cx, G, name)
         IN  LoadGlobals(r.cx, r.G, names \ {name})

\* restoreGlobals()
restoreGlobals(cx, G) ==
    LoadGlobals([cx EXCEPT !.preservedGlobalsStack = Append(@, cx.preservedGlobals),
                           !.preservedGlobals = EmptyHash],
                G, cx.globals.has)

\* loadRequire() of context c; found says that require.js is at requirePath
\* and creates its functions when fw.runScript runs it
loadRequire(c, cx, G, found) ==
    LET r == LoadGlobals(cx, G, GlobalNames)
        config == [r.G EXCEPT !["require"] = RequireConfig]
    IN  IF found
        THEN [cx |-> [r.cx EXCEPT !.loadedRequire = TRUE],
              G |-> [n \in GlobalNames |-> Library(c)]]
        ELSE [cx |-> r.cx, G |-> config]

\* saveGlobals(); a pop of the empty stack gives undefined, a hash of no names
saveGlobals(cx, G) ==
    LET globals == [has |-> cx.globals.has,
                    v |-> [n \in GlobalNames |->
                              IF n \in cx.globals.has THEN G[n] ELSE cx.globals.v[n]]]
        deleted == [n \in GlobalNames |-> IF n \in cx.globals.has THEN Undefined ELSE G[n]]
        restored == [n \in GlobalNames |->
                        IF n \in cx.preservedGlobals.has THEN cx.preservedGlobals.v[n]
                        ELSE deleted[n]]
        depth == Len(cx.preservedGlobalsStack)
    IN  [cx |-> [cx EXCEPT !.globals = globals,
                           !.preservedGlobals =
                               IF depth > 0 THEN cx.preservedGlobalsStack[depth] ELSE EmptyHash,
                           !.preservedGlobalsStack =
                               IF depth > 0 THEN SubSeq(@, 1, depth - 1) ELSE @],
         G |-> restored]

\* the delegator has been set up and no context has executed
InitContexts ==
    /\ global = [n \in GlobalNames |-> DelegateRequire]
    /\ context = [c \in Contexts |-> NewContext]
    /\ running = <<>>

\* the call of execute that is innermost
Innermost == running[Len(running)]

\* execute() of context c is called, by a script or from the callback of the
\* innermost execute, and runs up to the call of require: the globals are
\* restored, require.js is loaded the first time, and require.currentContext
\* is set, which throws out of execute when require is undefined; the
\* exception is caught by the execute whose callback made the call
ExecuteCall(c, found) ==
    /\ Len(running) < MaxDepth
    /\ Len(context[c].preservedGlobalsStack) < MaxDepth
    /\ running # <<>> => Innermost.at = "callback"
    /\ LET restored == restoreGlobals(context[c], global)
           loaded == IF ~restored.cx.loadedRequire
                     THEN loadRequire(c, restored.cx, restored.G, found)
                     ELSE restored
           require == loaded.G["require"]
       IN  /\ context' = [context EXCEPT ![c] = loaded.cx]
           /\ global' = loaded.G
           /\ running' =
                 IF require = Undefined
                 THEN IF running = <<>> THEN running
                      ELSE [running EXCEPT ![Len(running)].at = "caught"]
                 ELSE Append(running,
                             [c |-> c,
                              at |-> IF IsFunction(require) THEN "callback" ELSE "caught",
                              before |-> global,
                              depth |-> Len(context[c].preservedGlobalsStack)])

\* the callback of the innermost execute, or a module it loads, assigns a global
CallbackAssigns(name, value) ==
    /\ running # <<>>
    /\ Innermost.at = "callback"
    /\ global[name] # value
    /\ global' = [global EXCEPT ![name] = value]
    /\ UNCHANGED <<context, running>>

\* the call of require of the innermost execute has returned, or has thrown
\* and the exception was caught: the globals are saved and execute returns
ExecuteReturn ==
    /\ running # <<>>
    /\ LET saved == saveGlobals(context[Innermost.c], global)
       IN  /\ context' = [context EXCEPT ![Innermost.c] = saved.cx]
           /\ global' = saved.G
    /\ running' = SubSeq(running, 1, Len(running) - 1)

NextContext ==
    \/ \E c \in Contexts, found \in BOOLEAN : ExecuteCall(c, found)
    \/ CallbackAssigns("define", Module)
    \/ ExecuteReturn

-----------------------------------------------------------------------------
(* Specifications *)

\* DomStorage on a document whose layers are not touched
Init ==
    /\ InitDomStorage
    /\ InitTree(TRUE) /\ Len(dom) = 1 /\ ~dom[1].web
    /\ out = NoCall
    /\ InitPrefs
    /\ InitPages
    /\ InitContexts

Next == NextDomStorage /\ UNCHANGED <<treeVars, out, prefVars, pageVars, ctxVars>>

Spec == Init /\ [][Next]_vars

\* LayerTree on a document that keeps the host's invariant, with nothing stored
InitLayers == InitDomStorage /\ InitTree(TRUE) /\ out = NoCall /\ InitPrefs /\ InitPages /\ InitContexts

NextLayers == NextTree /\ UNCHANGED <<dsVars, out, prefVars, pageVars, ctxVars>>

SpecLayers == InitLayers /\ [][NextLayers]_vars

\* LayerTree on a flat list whose parent numbers may point anywhere
InitMalformed == InitDomStorage /\ InitTree(FALSE) /\ out = NoCall /\ InitPrefs /\ InitPages /\ InitContexts

SpecMalformed == InitMalformed /\ [][NextLayers]_vars

\* the functions of the layers module called on a document, with no tree kept
InitDocument ==
    /\ InitDomStorage
    /\ dom \in UNION {NamedDomsOf(n) : n \in 1..MaxLayers}
    /\ heap = <<>>
    /\ tree = [built |-> FALSE, _layers |-> <<>>, _root |-> Null, _ignoreWebLayers |-> FALSE]
    /\ rf = [at |-> "idle", i |-> 0, count |-> 0]
    /\ out = NoCall
    /\ InitPrefs
    /\ InitPages
    /\ InitContexts

NextCalls == NextDocument /\ UNCHANGED <<dsVars, prefVars, pageVars, ctxVars>>

SpecDocument == InitDocument /\ [][NextCalls]_vars

\* the prefs module: scripts get and set one preference and use one PrefsStorage
NextPrefsCalls == NextPrefs /\ UNCHANGED <<dsVars, treeVars, pageVars, ctxVars>>

SpecPrefs == Init /\ [][NextPrefsCalls]_vars

\* two DomStorage instances of one name, used in turn
InitSharedName ==
    /\ InitShared
    /\ InitTree(TRUE) /\ Len(dom) = 1 /\ ~dom[1].web
    /\ out = NoCall
    /\ InitPrefs
    /\ InitPages
    /\ InitContexts

NextSharedName == NextShared /\ UNCHANGED <<treeVars, out, prefVars, pageVars, ctxVars>>

SpecShared == InitSharedName /\ [][NextSharedName]_vars

\* DomStorage and PrefsStorage given default data and stored data with
\* properties named save and remove
NextReservedNames == NextReserved /\ UNCHANGED <<treeVars, pageVars, ctxVars>>

SpecReserved == Init /\ [][NextReservedNames]_vars

\* DomStorage constructed with inCheckAllPages on documents of several pages
InitDocumentPages ==
    /\ InitSeveralPages
    /\ InitTree(TRUE) /\ Len(dom) = 1 /\ ~dom[1].web
    /\ out = NoCall
    /\ InitPrefs
    /\ InitContexts

NextDocumentPages == NextPages /\ UNCHANGED <<treeVars, prefVars, ctxVars>>

SpecPages == InitDocumentPages /\ [][NextDocumentPages]_vars

\* scripts and callbacks call execute of the contexts
NextExecute == NextContext /\ UNCHANGED <<dsVars, treeVars, out, prefVars, pageVars>>

SpecContext == Init /\ [][NextExecute]_vars

\* the path functions called with every list of arguments
SpecPath == Init /\ [][NextPath]_vars

-----------------------------------------------------------------------------
(* Properties of the Layer objects *)

\* the Layer objects of a list
Ids(list) == {list[q] : q \in 1..Len(list)}

\* the Layer objects of the tree as it is now: its layers and its root
TreeLayers == Ids(tree._layers)

Built == tree.built /\ rf.at = "idle"

\* C1: after a refresh, every accessor of a Layer obtained before it ends in an
\* error instead of a value (here: any error at all, not only the stale one).
StaleAccessRaises ==
    \A n \in 1..Len(heap) :
        heap[n]._stale =>
            \A a \in Accessors : AccessorOutcome(a, heap, dom, n) # "value"

\* the layer the loop of refresh() is at has a parent number that is not -1 and
\* is not the index of a layer already constructed
ForwardParent ==
    /\ rf.at = "loop"
    /\ ~RefreshBreaks(tree, dom, rf.i)
    /\ getParentLayerNum(dom, rf.i) >= rf.i

\* C3, as claimed: a parent number that refers to a layer not yet constructed
\* makes the build fail, and no Layer is made for that layer.
ForwardParentFails ==
    [][ForwardParent => (rf'.at = "threw" /\ heap' = heap /\ tree' = tree)]_vars

\* C3, amended: the build never fails; each pass of the loop makes one Layer,
\* whose parent is the Layer of its parent number when that one is already
\* constructed, and the root otherwise (parent number -1, its own index, or a
\* higher one).
ForwardParentGoesToRoot ==
    [][(rf.at = "loop" /\ ~RefreshBreaks(tree, dom, rf.i)) =>
          LET p == getParentLayerNum(dom, rf.i)
          IN  /\ rf'.at # "threw"
              /\ Len(heap') = Len(heap) + 1
              /\ tree'._layers = Append(tree._layers, Len(heap'))
              /\ heap'[Len(heap')].index = rf.i
              /\ heap'[Len(heap')].parent =
                    IF p >= 0 /\ p < rf.i THEN tree._layers[p + 1] ELSE tree._root]_vars

\* a layer whose parent number is its own index or a higher one has been given
\* a Layer under the root
ForwardParentBuilt ==
    /\ rf.at = "loop"
    /\ \E q \in 1..Len(tree._layers) :
          /\ getParentLayerNum(dom, q - 1) >= q - 1
          /\ heap[tree._layers[q]].parent = tree._root
          /\ heap[tree._root]._sublayers[heap[tree._layers[q]].sublayerIndex + 1]
                = tree._layers[q]

\* the layers of the tree that have no layer above, and those that have none below
TopOfStack == {n \in TreeLayers : layerAbove(heap, n) = Null}
BottomOfStack == {n \in TreeLayers : layerBelow(heap, n) = Null}

\* C6: in a built tree layerAbove and layerBelow are inverse to each other
\* wherever they are not null, and they are null for one layer each: the top
\* and the bottom of the stack.
NavigationSymmetry ==
    Built =>
        /\ \A n \in TreeLayers :
              /\ layerAbove(heap, n) # Null =>
                    /\ layerAbove(heap, n) \in TreeLayers
                    /\ layerBelow(heap, layerAbove(heap, n)) = n
              /\ layerBelow(heap, n) # Null =>
                    /\ layerBelow(heap, n) \in TreeLayers
                    /\ layerAbove(heap, layerBelow(heap, n)) = n
        /\ TreeLayers # {} => Cardinality(TopOfStack) = 1 /\ Cardinality(BottomOfStack) = 1

\* a built tree in which some layer's layerAbove is neither its parent nor a
\* sibling: it is found by going down into the sibling above
NavigationDrillsDown ==
    /\ Built
    /\ \E n \in TreeLayers :
          /\ layerAbove(heap, n) # Null
          /\ layerAbove(heap, n) # heap[n].parent
          /\ heap[layerAbove(heap, n)].parent # heap[n].parent

\* C7: the Layer at position i of the tree's _layers has index i, during and
\* after every construction and refresh.
NodeIndexIsPosition ==
    \A q \in 1..Len(tree._layers) : heap[tree._layers[q]].index = q - 1

\* a tree rebuilt by a refresh holds two layers or more, and the layers of the
\* tree before it are stale
RefreshedTreeIndexed ==
    /\ Built
    /\ rf.count >= 1
    /\ Len(tree._layers) >= 2
    /\ Len(tree._layers) = Len(dom)
    /\ \E n \in 1..Len(heap) : heap[n]._stale

\* the Layer objects reached from those of a set by following _sublayers
RECURSIVE Reachable(_, _, _)
Reachable(h, seen, fuel) ==
    LET more == seen \cup UNION {Ids(h[n]._sublayers) : n \in seen}
    IN  IF fuel = 0 \/ more = seen THEN seen ELSE Reachable(h, more, fuel - 1)

\* the number of parent links from a Layer up to the root, -1 if more than fuel
RECURSIVE Depth(_, _, _)
Depth(h, n, fuel) ==
    IF h[n].parent = Null THEN 0
    ELSE IF fuel = 0 THEN 0 - 1
    ELSE LET up == Depth(h, h[n].parent, fuel - 1)
         IN  IF up < 0 THEN up ELSE up + 1

\* C8: after construction the parent and _sublayers links form one tree under
\* the root: every layer has one parent in the tree, is once in its parent's
\* _sublayers, at position sublayerIndex, reaches the root by its parent links,
\* and is reached from the root's _sublayers (topLayers) by _sublayers links.
RootedTree ==
    Built =>
        /\ heap[tree._root].parent = Null
        /\ tree._root \notin TreeLayers
        /\ \A n \in TreeLayers :
              LET parent == heap[n].parent
              IN  /\ parent \in TreeLayers \cup {tree._root}
                  /\ heap[n].sublayerIndex >= 0
                  /\ heap[n].sublayerIndex < Len(heap[parent]._sublayers)
                  /\ heap[parent]._sublayers[heap[n].sublayerIndex + 1] = n
                  /\ Cardinality({m \in TreeLayers \cup {tree._root} :
                                     n \in Ids(heap[m]._sublayers)}) = 1
                  /\ Cardinality({k \in 1..Len(heap[parent]._sublayers) :
                                     heap[parent]._sublayers[k] = n}) = 1
                  /\ Depth(heap, n, Len(heap)) > 0
        /\ Reachable(heap, {tree._root}, Len(heap)) = TreeLayers \cup {tree._root}

\* a built tree of three layers or more with a sublayer and two top layers
NestedTreeBuilt ==
    /\ Built
    /\ Len(tree._layers) >= 3
    /\ Len(heap[tree._root]._sublayers) >= 2
    /\ \E n \in TreeLayers : heap[n].parent # tree._root

\* C9: every Layer that was in the tree's _layers before a refresh() (called
\* by the user or by remove()) is stale from the first step of that refresh
\* on, so before any new Layer is made: at every point, a Layer with an index
\* that is not in the current _layers is stale.
OldLayersStale ==
    \A n \in 1..Len(heap) :
        (heap[n].index >= 0 /\ n \notin TreeLayers) => heap[n]._stale

\* a refresh has marked the old layers and has not made a new Layer yet
RefreshMarkedBeforeBuilding ==
    /\ rf.at = "loop"
    /\ rf.count >= 1
    /\ rf.i = 0
    /\ tree._layers = <<>>
    /\ Cardinality({n \in 1..Len(heap) : heap[n]._stale}) >= 2

\* the Layer objects on the parent links from a Layer up to the root, the
\* Layer itself included
RECURSIVE SelfAndAncestors(_, _, _)
SelfAndAncestors(h, n, fuel) ==
    IF h[n].parent = Null \/ fuel = 0 THEN {n}
    ELSE {n} \cup SelfAndAncestors(h, h[n].parent, fuel - 1)

\* C12: for every layer n of a built tree the walk of topLayerAncestor ends,
\* at a layer of the tree that is n or one of its ancestors and whose parent
\* is the root (the Layer of index -1); it is n itself when n is a top layer.
TopLayerAncestorUnderRoot ==
    Built =>
        \A n \in TreeLayers :
            LET a == topLayerAncestor(heap, n)
            IN  /\ a # Null
                /\ a \in TreeLayers
                /\ a \in SelfAndAncestors(heap, n, Len(heap))
                /\ heap[a].parent = tree._root
                /\ heap[heap[a].parent].index = 0 - 1
                /\ (heap[n].parent = tree._root) <=> (a = n)

\* a built tree with a layer two levels below its top layer ancestor
GrandchildHasTopAncestor ==
    /\ Built
    /\ \E n \in TreeLayers :
          /\ topLayerAncestor(heap, n) # Null
          /\ topLayerAncestor(heap, n) # n
          /\ topLayerAncestor(heap, n) # heap[n].parent

\* C13: topLayers holds the top layers of a built tree and no other, each at
\* the position of its sublayerIndex, and in the order of the flat list: a
\* top layer met earlier in the scan (lower index) comes earlier.
TopLayersBySublayerIndex ==
    Built =>
        LET top == topLayers(heap, tree)
        IN  /\ Ids(top) = {n \in TreeLayers : heap[n].parent = tree._root}
            /\ \A n \in TreeLayers :
                  heap[n].parent = tree._root =>
                      /\ heap[n].sublayerIndex >= 0
                      /\ heap[n].sublayerIndex < Len(top)
                      /\ top[heap[n].sublayerIndex + 1] = n
            /\ \A q \in 1..(Len(top) - 1) : heap[top[q]].index < heap[top[q + 1]].index

\* a built tree whose second top layer has an index other than its
\* sublayerIndex, a sublayer lying between the two top layers in the list
TopLayerAfterSublayer ==
    /\ Built
    /\ Len(topLayers(heap, tree)) >= 2
    /\ heap[topLayers(heap, tree)[2]].sublayerIndex = 1
    /\ heap[topLayers(heap, tree)[2]].index = 2

\* the top layers of the tree with a higher, respectively a lower, index than
\* the Layer a
TopLayersOver(a) ==
    {m \in TreeLayers : heap[m].parent = tree._root /\ heap[m].index > heap[a].index}
TopLayersUnder(a) ==
    {m \in TreeLayers : heap[m].parent = tree._root /\ heap[m].index < heap[a].index}

\* C18: for every layer n of a built tree, with a its top layer ancestor:
\* topLayerAbove is the top layer next above a (sublayerIndex one higher, the
\* lowest index of the top layers over a) and is undefined exactly when no
\* top layer is over a; topLayerBelow is the top layer next below a and is
\* undefined exactly when no top layer is under a.
TopLayerNeighbours ==
    Built =>
        \A n \in TreeLayers :
            LET a == topLayerAncestor(heap, n)
                above == topLayerAbove(heap, tree, n)
                below == topLayerBelow(heap, tree, n)
            IN  /\ (above = Null) <=> (TopLayersOver(a) = {})
                /\ above # Null =>
                      /\ above \in TopLayersOver(a)
                      /\ heap[above].sublayerIndex = heap[a].sublayerIndex + 1
                      /\ \A m \in TopLayersOver(a) : heap[above].index <= heap[m].index
                /\ (below = Null) <=> (TopLayersUnder(a) = {})
                /\ below # Null =>
                      /\ below \in TopLayersUnder(a)
                      /\ heap[below].sublayerIndex = heap[a].sublayerIndex - 1
                      /\ \A m \in TopLayersUnder(a) : heap[below].index >= heap[m].index

\* a built tree in which a sublayer of the lowest top layer has the next top
\* layer as its topLayerAbove, and nothing as its topLayerBelow
SublayerHasTopLayerAbove ==
    /\ Built
    /\ \E n \in TreeLayers :
          /\ heap[n].parent # tree._root
          /\ topLayerAbove(heap, tree, n) # Null
          /\ topLayerBelow(heap, tree, n) = Null
          /\ topLayerBelow(heap, tree, topLayerAbove(heap, tree, n))
                = topLayerAncestor(heap, n)

\* C19: when the build of a tree made with inIgnoreWebLayers = true ends, no
\* Layer of the tree stands for a web layer of the document, and every layer
\* of the document that is no web layer has its Layer in the tree.
IgnoreWebLayersOmitsWeb ==
    [][(rf.at = "loop" /\ rf'.at = "idle" /\ tree'._ignoreWebLayers) =>
          /\ \A q \in 1..Len(tree'._layers) : ~dom[heap'[tree'._layers[q]].index + 1].web
          /\ \A i \in 0..(Len(dom) - 1) :
                ~dom[i + 1].web =>
                    \E q \in 1..Len(tree'._layers) : heap'[tree'._layers[q]].index = i]_vars

\* the layers of the tree on the parent links from n up to the top layer
\* ancestor, n itself included
Line(n) == SelfAndAncestors(heap, n, Len(heap)) \cap TreeLayers

\* r is the lowest layer in s: a layer without sublayers that is s or is
\* reached from s through sublayers that are all at position 0
LowestIn(r, s) ==
    /\ s \in Line(r)
    /\ Len(heap[r]._sublayers) = 0
    /\ \A m \in Line(r) : (s \in Line(m) /\ m # s) => heap[m].sublayerIndex = 0

\* m is the nearest of n and its ancestors that has a lower sibling
NearestWithLowerSibling(m, n) ==
    /\ m \in Line(n)
    /\ heap[m].sublayerIndex > 0
    /\ \A k \in Line(n) : (m \in Line(k) /\ k # m) => heap[k].sublayerIndex = 0

\* C24: in a built tree, layerAbove of a layer n is the lowest layer in the
\* sibling at sublayerIndex + 1 if n has that sibling, else the parent of n
\* if n is no top layer, else null; layerBelow of n is the last sublayer of n
\* if it has sublayers, else the sibling at sublayerIndex - 1 of the nearest
\* of n and its ancestors that has such a sibling, else null.
AboveAndBelowAsDescribed ==
    Built =>
        \A n \in TreeLayers :
            LET siblings == heap[heap[n].parent]._sublayers
                k == heap[n].sublayerIndex
                above == layerAbove(heap, n)
                below == layerBelow(heap, n)
                count == Len(heap[n]._sublayers)
            IN  /\ k + 1 < Len(siblings) =>
                      above # Null /\ LowestIn(above, siblings[k + 2])
                /\ (k + 1 >= Len(siblings) /\ heap[n].parent # tree._root) =>
                      above = heap[n].parent
                /\ (k + 1 >= Len(siblings) /\ heap[n].parent = tree._root) =>
                      above = Null
                /\ count > 0 => below = heap[n]._sublayers[count]
                /\ count = 0 =>
                      /\ \A m \in TreeLayers :
                            NearestWithLowerSibling(m, n) =>
                                below = heap[heap[m].parent]._sublayers[heap[m].sublayerIndex]
                      /\ (\A m \in TreeLayers : ~NearestWithLowerSibling(m, n)) =>
                            below = Null

\* a built tree in which the layerBelow of a layer is the lower sibling of
\* its parent, the layer having no sublayer and no lower sibling of its own
BelowIsUnclesLayer ==
    /\ Built
    /\ \E n \in TreeLayers :
          /\ Len(heap[n]._sublayers) = 0
          /\ heap[n].sublayerIndex = 0
          /\ heap[n].parent # tree._root
          /\ layerBelow(heap, n) # Null
          /\ heap[layerBelow(heap, n)].parent = heap[heap[n].parent].parent

\* the Layer objects reached from those of a set by following parent and
\* _sublayers links
RECURSIVE Linked(_, _, _)
Linked(h, seen, fuel) ==
    LET more == seen \cup UNION {Ids(h[n]._sublayers) : n \in seen}
                     \cup {h[n].parent : n \in {m \in seen : h[m].parent # Null}}
    IN  IF fuel = 0 \/ more = seen THEN seen ELSE Linked(h, more, fuel - 1)

\* no Layer reached from the tree is stale
CurrentLayersFresh ==
    tree.built =>
        \A n \in Linked(heap, TreeLayers \cup {tree._root}, Len(heap)) : ~heap[n]._stale

\* a step that changes the tree's list of layers leaves every Layer it takes
\* out of the list stale, and puts only Layer objects made by that step into
\* it; and a stale Layer stays stale and out of the list
LayersNeverReused ==
    /\ \A n \in Ids(tree._layers) \ Ids(tree'._layers) : heap'[n]._stale
    /\ \A n \in Ids(tree'._layers) \ Ids(tree._layers) : n > Len(heap)
    /\ \A n \in 1..Len(heap) :
          heap[n]._stale => (heap'[n]._stale /\ n \notin Ids(tree'._layers))

\* C29: through every construction, refresh() and remove(), no Layer reached
\* from the tree (its list of layers, its root, and their parent and
\* sublayer links) is stale; every Layer that was in the list before a
\* refresh is stale from then on; and no Layer of an earlier list is in the
\* list again: the layers of a new list are new objects.
StaleExactlyTheOldLayers ==
    []CurrentLayersFresh /\ [][LayersNeverReused]_vars

\* a tree rebuilt twice, the document having lost a layer meanwhile: Layer
\* objects of two earlier lists are stale and one has an index the document
\* no longer has
RebuiltTwiceAfterRemoval ==
    /\ Built
    /\ rf.count >= 2
    /\ TreeLayers # {}
    /\ \E n \in 1..Len(heap) : heap[n]._stale /\ heap[n].index >= Len(dom)
    /\ Cardinality({n \in 1..Len(heap) : heap[n]._stale /\ heap[n].index = 0}) >= 2

-----------------------------------------------------------------------------
(* Properties of the functions of the layers module *)

\* the positions, counted from 0, of the layers of the document with a name
NamedLayers(name) == {i \in 0..(Len(dom) - 1) : LayerName(dom[i + 1].name) = name}

\* C16: getLayerIndexByName returns a number: the index of the first layer of
\* the document that has the name, or -1 when no layer has it.
GetLayerIndexByNameGivesIndex ==
    out.fn = "getLayerIndexByName" =>
        /\ out.val.t = "number"
        /\ NamedLayers(out.arg) = {} => out.val.n = 0 - 1
        /\ NamedLayers(out.arg) # {} =>
              /\ out.val.n \in NamedLayers(out.arg)
              /\ \A i \in NamedLayers(out.arg) : out.val.n <= i

\* the lines of a text: its pieces that end with a line feed, and what
\* comes after the last line feed if that is not empty
RECURSIVE Lines(_)
Lines(s) ==
    LET p == Least({j \in 1..Len(s) : s[j] = "\n"}, 0)
    IN  IF Len(s) = 0 THEN <<>>
        ELSE IF p = 0 THEN <<s>>
        ELSE <<SubSeq(s, 1, p - 1)>> \o Lines(SubSeq(s, p + 1, Len(s)))

\* the number of spaces a line starts with
LineIndent(line) == Least({j \in 1..Len(line) : line[j] # " "}, Len(line) + 1) - 1

\* the number that follows the spaces a line starts with
LineIndex(line) ==
    StrToNum(SubSeq(line, LineIndent(line) + 1,
                    FirstNonDigitFrom(line, LineIndent(line) + 1) - 1))

\* the layer i of a document and the layers it lies in, by the parent numbers
SelfAndParents(d, i) == {j \in 0..(Len(d) - 1) : IsUnder(d, i, j, Len(d))}

\* layer a is shown above layer b in the Layers panel: a contains b, or,
\* where their lines of parents part, a's side has the higher index
ShownAbove(d, a, b) ==
    IF a \in SelfAndParents(d, b) THEN TRUE
    ELSE IF b \in SelfAndParents(d, a) THEN FALSE
    ELSE Least(SelfAndParents(d, a) \ SelfAndParents(d, b), 0)
            > Least(SelfAndParents(d, b) \ SelfAndParents(d, a), 0)

\* the line of layer i: four spaces for each layer it lies in, "index: name"
ExpectedLine(d, i) ==
    [j \in 1..(4 * (Cardinality(SelfAndParents(d, i)) - 1)) |-> " "]
        \o NumToStr(i) \o <<":", " ">> \o LayerName(d[i + 1].name)

\* "2: Layer 3\n0: Layer 1\n    1: Layer 2\n"
ExampleDump ==
    <<"2", ":", " ">> \o LayerName(3) \o <<"\n">>
        \o <<"0", ":", " ">> \o LayerName(1) \o <<"\n">>
        \o <<" ", " ", " ", " ", "1", ":", " ">> \o LayerName(2) \o <<"\n">>

\* C17: the string alertLayers returns has one line for each layer of the
\* document and no other; the line of a layer is "index: name" after four
\* spaces for each level of depth; and the lines stand in the order of the
\* Layers panel, top to bottom: a layer before its sublayers, these before
\* the layer's next sibling, and of two siblings the one with the higher
\* index first. Parents -1, 0, -1 and names Layer 1, 2, 3 give the text
\* "2: Layer 3", "0: Layer 1", "    1: Layer 2", each with a line feed.
DumpIsTopDownOutline ==
    out.fn = "alertLayers" =>
        LET lines == Lines(out.val.s)
        IN  /\ Len(out.val.s) > 0
            /\ out.val.s[Len(out.val.s)] = "\n"
            /\ Len(lines) = Len(dom)
            /\ \A q \in 1..Len(lines) :
                  /\ LineIndex(lines[q]) \in 0..(Len(dom) - 1)
                  /\ lines[q] = ExpectedLine(dom, LineIndex(lines[q]))
            /\ \A q, r \in 1..Len(lines) :
                  q < r =>
                      /\ LineIndex(lines[q]) # LineIndex(lines[r])
                      /\ ShownAbove(dom, LineIndex(lines[q]), LineIndex(lines[r]))
            /\ ( /\ Len(dom) = 3
                 /\ [q \in 1..3 |-> dom[q].parent] = <<0 - 1, 0, 0 - 1>>
                 /\ [q \in 1..3 |-> dom[q].name] = <<1, 2, 3>> )
               => out.val.s = ExampleDump

\* alertLayers has returned the text of a document of three layers of which
\* the second lies in the first
DumpedNestedDocument ==
    /\ out.fn = "alertLayers"
    /\ Len(dom) = 3
    /\ dom[2].parent = 0
    /\ dom[3].parent = 0 - 1
    /\ Len(Lines(out.val.s)) = 3
    /\ LineIndent(Lines(out.val.s)[3]) = 4

\* the layers met from n on by following layerBelow, at most fuel of them
RECURSIVE WalkBelow(_, _, _)
WalkBelow(h, n, fuel) ==
    IF n = Null \/ fuel = 0 THEN <<>>
    ELSE <<n>> \o WalkBelow(h, layerBelow(h, n), fuel - 1)

\* the walk from the layer of the tree that has no layerAbove, cut off after
\* one layer more than the tree has
WalkFromTop ==
    IF TopOfStack = {} THEN <<>>
    ELSE WalkBelow(heap, CHOOSE n \in TopOfStack : TRUE, Cardinality(TreeLayers) + 1)

\* the walk visits every layer of the tree once and ends at null
WalkVisitsAllOnce ==
    /\ Cardinality(TopOfStack) = IF TreeLayers = {} THEN 0 ELSE 1
    /\ Len(WalkFromTop) = Cardinality(TreeLayers)
    /\ Ids(WalkFromTop) = TreeLayers

\* the walk meets the layers in the order of the lines of the text that
\* alertLayers returns for the document
WalkIsDumpOrder ==
    LET lines == Lines(alertLayers(dom))
    IN  /\ Len(lines) = Len(WalkFromTop)
        /\ \A q \in 1..Len(lines) : LineIndex(lines[q]) = heap[WalkFromTop[q]].index

\* C30, as claimed: in every built tree the walk from the layer without
\* layerAbove along layerBelow visits every layer once and ends, in the order
\* of the lines of the alertLayers text.
WalkIsDumpOfEveryTree ==
    Built => (WalkVisitsAllOnce /\ WalkIsDumpOrder)

\* the tree has a Layer for every layer of the document as it is now, with
\* the parent the document gives
TreeMatchesDocument ==
    /\ Len(tree._layers) = Len(dom)
    /\ \A q \in 1..Len(tree._layers) :
          /\ heap[tree._layers[q]].index = q - 1
          /\ heap[heap[tree._layers[q]].parent].index = getParentLayerNum(dom, q - 1)

\* C30, amended: in every built tree the walk visits every layer of the tree
\* once and ends; its order is that of the lines of the alertLayers text when
\* the tree has a Layer for every layer of the document, which a tree made
\* with inIgnoreWebLayers, or before a layer was deleted, need not have.
WalkIsDumpOfWholeTree ==
    Built =>
        /\ WalkVisitsAllOnce
        /\ TreeMatchesDocument => WalkIsDumpOrder

\* a built tree of the whole document, with two top layers and a sublayer,
\* has been walked from top to bottom
WalkedWholeNestedTree ==
    /\ Built
    /\ TreeMatchesDocument
    /\ Len(dom) >= 3
    /\ Len(topLayers(heap, tree)) >= 2
    /\ \E n \in TreeLayers : heap[n].parent # tree._root
    /\ Len(WalkFromTop) = Len(dom)

-----------------------------------------------------------------------------
(* Properties of DomStorage *)

\* a save() of instance frame.self has just returned
Saved == frame.at = "idle" /\ frame.op = "save"

\* the chunkCount of the stored metadata
StoredCount == LoopLen(ChunkCountOf(Parse(pngText.meta.s)))

\* C2: after a save(), the chunks name_0 .. name_(chunkCount - 1) joined are
\* the string that save() wrote, and a new DomStorage of that name without
\* default data has exactly the properties of the saved instance.
RoundTrip ==
    Saved =>
        /\ JoinChunks(pngText, StoredCount) = frame.dataString
        /\ ~Load(pngText, <<>>).threw
        /\ Load(pngText, <<>>).data = inst[frame.self].data

\* a save() of (MaxChunks - 1) * ChunkSize + 1 characters, one more than fills
\* MaxChunks - 1 chunks, has returned
SavedLongest ==
    /\ Saved
    /\ Len(frame.dataString) = (MaxChunks - 1) * ChunkSize + 1
    /\ StoredCount = MaxChunks

\* the number of chunks the payload of the save() that has just returned needs
NewCount == inst[frame.self].chunkCount.n

\* C4: when an instance whose _metadata.chunkCount is N saves a payload that
\* needs M < N chunks, the slots name_M .. name_(N - 1) hold the empty string
\* afterwards, the stored metadata says chunkCount M, and a load gives the
\* shorter payload.
ShrinkClears ==
    (Saved /\ LoopLen(frame.oldCount) > NewCount) =>
        /\ \A j \in NewCount..(LoopLen(frame.oldCount) - 1) :
              pngText.chunk[j] = Written(<<>>)
        /\ ChunkCountOf(Parse(pngText.meta.s)) = JNum(NewCount)
        /\ NewCount * ChunkSize >= Len(frame.dataString)
        /\ (NewCount - 1) * ChunkSize < Len(frame.dataString)
        /\ JoinChunks(pngText, StoredCount) = frame.dataString
        /\ Load(pngText, <<>>).data = inst[frame.self].data

\* a save() that needed one chunk after one that needed three or more
ShrunkByTwo ==
    /\ Saved
    /\ NewCount = 1
    /\ LoopLen(frame.oldCount) >= 3
    /\ pngText.chunk[2] = Written(<<>>)

\* what the chunk slots must hold when save() stores the metadata
ChunksStored(pt, dataString, chunkCount, oldCount) ==
    /\ \A j \in 0..(chunkCount - 1) :
          pt.chunk[j] = Written(Substr(dataString, j * ChunkSize))
    /\ \A j \in chunkCount..(oldCount - 1) : pt.chunk[j] = Written(<<>>)

\* C5: the step of save() that stores the metadata is its last write: it
\* comes when every chunk of the payload and every clearing of an unused slot
\* has been written, so that the stored chunkCount never counts a slot that
\* this save has yet to write; and as long as only DomStorage writes pngText,
\* at every point every slot below the stored chunkCount has been written.
MetadataWrittenLast ==
    [][/\ (frame.at = "save" /\ pngText'.meta # pngText.meta) =>
             /\ frame'.at = "idle"
             /\ pngText'.chunk = pngText.chunk
             /\ ChunksStored(pngText', frame.dataString,
                             LoopLen(ChunkCountOf(Parse(pngText'.meta.s))),
                             LoopLen(frame.oldCount))
       /\ calls'.tamper = 0 =>
             \A j \in 0..(LoopLen(ChunkCountOf(Parse(pngText'.meta.s))) - 1) :
                pngText'.chunk[j].def]_vars

\* save() is about to store the metadata after three chunks or more
MetadataIsNext ==
    /\ frame.at = "save"
    /\ Len(frame.todo) = 1
    /\ Head(frame.todo).slot = "meta"
    /\ Head(frame.todo).j >= 3
    /\ pngText.meta # Written(Head(frame.todo).s)

\* C11: a save() that follows a save() of the same instance, with no property
\* set and no other write to pngText between them, changes nothing: each of
\* its writes leaves every chunk slot and the metadata slot as the first save
\* left them, and _metadata.chunkCount stays as it is.
SaveIdempotent ==
    [][(frame.at = "save" /\ frame.again) => (pngText' = pngText /\ inst' = inst)]_vars

\* a second save() in a row has returned, after a first one that needed fewer
\* chunks than the instance had used and so cleared a slot
SavedAgainAfterShrink ==
    /\ Saved
    /\ frame.again
    /\ StoredCount >= 1
    /\ StoredCount < MaxChunks
    /\ pngText.chunk[StoredCount] = Written(<<>>)

\* the least number of pieces of at most size characters that hold len characters
Ceiling(len, size) == (len + size - 1) \div size

\* C14: when a save() has returned, _metadata.chunkCount and the chunkCount of
\* the stored metadata are the length of the JSON string divided by ChunkSize,
\* rounded up; the slots name_0 .. name_(chunkCount - 1) hold at most ChunkSize
\* characters each, exactly ChunkSize all but the last, and the last the rest.
ChunkCountIsCeiling ==
    Saved =>
        LET len == Len(frame.dataString)
            count == Ceiling(len, ChunkSize)
        IN  /\ inst[frame.self].chunkCount = JNum(count)
            /\ ChunkCountOf(Parse(pngText.meta.s)) = JNum(count)
            /\ \A j \in 0..(count - 1) :
                  /\ pngText.chunk[j].def
                  /\ Len(pngText.chunk[j].s) <= ChunkSize
                  /\ j < count - 1 => Len(pngText.chunk[j].s) = ChunkSize
                  /\ j = count - 1 => Len(pngText.chunk[j].s) = len - (count - 1) * ChunkSize

\* a save() of a whole number of chunks' worth of characters, more than one,
\* has returned: the last chunk is full, and no further one was written for it
SavedWholeChunks ==
    /\ Saved
    /\ Len(frame.dataString) = (MaxChunks - 1) * ChunkSize
    /\ StoredCount = MaxChunks - 1
    /\ Len(pngText.chunk[MaxChunks - 2].s) = ChunkSize
    /\ ~pngText.chunk[MaxChunks - 1].def

\* the JSON string of an object without properties
EmptyObject == <<"{", "}">>

\* C15: a save() of an instance without data properties, whose JSON string is
\* the shortest there is, writes that string to the slot name_0 as one short
\* chunk, and stores metadata whose chunkCount is 1.
EmptyPayloadOneChunk ==
    (Saved /\ inst[frame.self].data = <<>>) =>
        /\ frame.dataString = EmptyObject
        /\ pngText.chunk[0] = Written(EmptyObject)
        /\ inst[frame.self].chunkCount = JNum(1)
        /\ pngText.meta = Written(Stringify(Metadata(JNum(1))))
        /\ ChunkCountOf(Parse(pngText.meta.s)) = JNum(1)

\* an instance made without default data on a document with nothing stored
\* has been saved
SavedEmptyObject ==
    /\ Saved
    /\ inst[frame.self].data = <<>>
    /\ pngText.chunk[0].def
    /\ Len(pngText.chunk[0].s) = 2
    /\ pngText.meta.def
    /\ \A j \in 1..(MaxChunks - 1) : ~pngText.chunk[j].def

\* the properties of an object whose names are not reserved
RECURSIVE DataOnly(_)
DataOnly(obj) ==
    IF Len(obj) = 0 THEN <<>>
    ELSE (IF obj[1].k \in ReservedNames THEN <<>> ELSE <<obj[1]>>) \o DataOnly(Tail(obj))

\* the constructor that has just returned found metadata that does not parse,
\* or chunks that joined do not parse
LoadFailed ==
    /\ frame.at = "idle"
    /\ frame.op = "construct"
    /\ Truthy(SlotValue(pngText.meta))
    /\ \/ ~Parse(pngText.meta.s).ok
       \/ ~Parse(JoinChunks(pngText, StoredCount)).ok

\* C10: when the stored metadata or the joined chunks do not parse, the
\* constructor throws nothing and the instance has the default data the caller
\* gave, and nothing else.
LoadFailureGivesDefaults ==
    LoadFailed =>
        /\ ~frame.threw
        /\ inst[frame.self].live
        /\ inst[frame.self].data = DataOnly(frame.defaults)

\* a constructor given default data found metadata that parses and one chunk
\* that does not
LoadFailedOnChunk ==
    /\ LoadFailed
    /\ Parse(pngText.meta.s).ok
    /\ StoredCount = 1
    /\ pngText.chunk[0].def
    /\ frame.defaults # <<>>

\* C20: a remove() that finds metadata stored ends with the empty string in
\* the metadata slot and in every slot name_0 .. name_(chunkCount - 1), for the
\* chunkCount of the instance; a remove() that finds none returns without a
\* write; and however it went, the DomStorage constructed next has the
\* default data given to it and nothing else.
RemoveClearsEverySlot ==
    [][/\ (frame.at = "remove" /\ frame'.at = "idle") =>
             /\ pngText'.meta = Written(<<>>)
             /\ \A j \in 0..(LoopLen(inst[frame.self].chunkCount) - 1) :
                   pngText'.chunk[j] = Written(<<>>)
       /\ (frame.at = "idle" /\ frame'.op = "remove" /\ calls'.remove > calls.remove) =>
             /\ pngText' = pngText
             /\ (frame'.at = "idle") <=> ~Truthy(SlotValue(pngText.meta))
       /\ (frame.at = "idle" /\ frame.op = "remove" /\ frame'.op = "construct") =>
             /\ ~frame'.threw
             /\ inst'[frame'.self].data = DataOnly(frame'.defaults)
             /\ ~Truthy(SlotValue(pngText.meta))]_vars

\* a remove() of an instance that had saved two chunks or more has returned
\* and a DomStorage was constructed after it with default data
ConstructedAfterRemove ==
    /\ frame.at = "idle"
    /\ frame.op = "construct"
    /\ frame.defaults # <<>>
    /\ calls.remove >= 1
    /\ calls.tamper = 0
    /\ pngText.meta = Written(<<>>)
    /\ pngText.chunk[0] = Written(<<>>)
    /\ pngText.chunk[1] = Written(<<>>)

\* the chunk slot name_j holds no data: the empty string, or nothing yet
NoData(j) == ~Truthy(SlotValue(pngText.chunk[j]))

\* C28: with two instances of one name used in turn, whenever no call is in
\* progress every chunk slot from the stored chunkCount on holds no data, every
\* chunk slot holds none when no metadata is stored, and after a save() a
\* load gives the properties of the instance that saved
SharedSlotsClean ==
    frame.at = "idle" =>
        /\ Truthy(SlotValue(pngText.meta)) =>
              \A j \in StoredCount..(MaxChunks - 1) : NoData(j)
        /\ ~Truthy(SlotValue(pngText.meta)) =>
              \A j \in 0..(MaxChunks - 1) : NoData(j)
        /\ Saved => Load(pngText, <<>>).data = inst[frame.self].data

-----------------------------------------------------------------------------
(* Properties of the prefs module *)

PrefValues == {JStr(<<"b", "a", "r">>), JNum(7), JNum(42), JStr(<<"h", "i">>)}

\* every object with properties among foo and baz, in either order
PrefObjects ==
    {<<>>}
    \cup { <<[k |-> k1, v |-> v1]>> : k1 \in {KeyFoo, KeyBaz}, v1 \in PrefValues }
    \cup { <<[k |-> kk[1], v |-> v1], [k |-> kk[2], v |-> v2]>> :
             kk \in {<<KeyFoo, KeyBaz>>, <<KeyBaz, KeyFoo>>},
             v1 \in PrefValues, v2 \in PrefValues }

KeysOf(obj) == {obj[q].k : q \in 1..Len(obj)}

\* the entry holds no object: there is none, or it is null, or it does not evaluate
NothingStored ==
    \/ ~prefFile.def
    \/ prefFile.s = NullText
    \/ prefFile.s = <<"{">>

\* the returned object is the stored one with the properties of the defaults
\* that the stored one lacks
StoredPlusMissingDefaults(result, stored, defaults) ==
    /\ KeysOf(result) = KeysOf(stored) \cup KeysOf(defaults)
    /\ \A k \in KeysOf(stored) : GetProp(result, k) = GetProp(stored, k)
    /\ \A k \in KeysOf(defaults) \ KeysOf(stored) : GetProp(result, k) = GetProp(defaults, k)

\* C23: what prefs.get(name, defaults) returned is an object: the stored
\* properties, each with its stored value, plus the properties of the defaults
\* the stored object lacks; if the preference has no entry, is null or does not
\* evaluate it is the object of the defaults alone, empty without defaults; so
\* a get without defaults after a set of an object returns the properties set
GetAddsMissingDefaults ==
    /\ NothingStored \/ \E m \in PrefObjects : prefFile = Written(Stringify(m))
    /\ out.fn = "prefs.get" =>
          /\ out.val.t = "object"
          /\ \A m \in PrefObjects :
                prefFile = Written(Stringify(m)) =>
                    /\ StoredPlusMissingDefaults(out.val.m, m, out.arg)
                    /\ out.arg = <<>> => KeysOf(out.val.m) = KeysOf(m)
          /\ NothingStored => StoredPlusMissingDefaults(out.val.m, <<>>, out.arg)

\* a stored foo is kept against the default foo, and the default baz is added
GotStoredAndDefault ==
    /\ out.fn = "prefs.get"
    /\ prefFile = Written(Stringify(<<[k |-> KeyFoo, v |-> JStr(<<"b", "a", "r">>)]>>))
    /\ out.arg = <<[k |-> KeyFoo, v |-> JNum(42)], [k |-> KeyBaz, v |-> JStr(<<"h", "i">>)]>>
    /\ GetProp(out.val.m, KeyFoo) = JStr(<<"b", "a", "r">>)
    /\ GetProp(out.val.m, KeyBaz) = JStr(<<"h", "i">>)

\* C26: a remove() of a PrefsStorage instance while the preferences file has
\* no entry for the name writes nothing: the entry is as before
RemoveWithoutEntryWritesNothing ==
    [][(out'.fn = "PrefsStorage.remove" /\ ~prefFile.def) => prefFile' = prefFile]_vars

-----------------------------------------------------------------------------
(* Properties of the reserved names *)

\* the data properties of the instances: none is named save or remove
NoReservedProperty ==
    /\ \A i \in Instances : inst[i].live => KeysOf(inst[i].data) \cap ReservedNames = {}
    /\ prefObj.live => KeysOf(prefObj.data) \cap ReservedNames = {}

\* the constructor that has just returned did not throw and gave the instance
\* the other properties of the default data and of the stored data
OtherPropertiesLoaded ==
    (frame.at = "idle" /\ frame.op = "construct") =>
        /\ ~frame.threw
        /\ \A obj \in ReservedStored :
              pngText = SavedPage(obj) =>
                  StoredPlusMissingDefaults(inst[frame.self].data,
                                            DataOnly(obj), DataOnly(frame.defaults))

\* an assignment to save or remove leaves the instance as it was
AssignmentChangesNothing ==
    /\ (frame'.op = "assign" /\ frame'.threw) => inst' = inst
    /\ frame'.op = "assign" =>
          \A k \in ReservedNames :
             GetProp(inst'[frame'.self].data, k) = GetProp(inst[frame'.self].data, k)
    /\ \A k \in ReservedNames :
          (out'.fn = "PrefsStorage.assign" /\ out'.arg[1] = k) => prefObj' = prefObj

\* C21: no instance of DomStorage or PrefsStorage ever has a data property
\* named save or remove in place of its method: the constructor skips such
\* properties of the default data and of the stored data, without throwing
\* and taking the other properties, and an assignment to save or remove
\* leaves the instance as it was
ReservedNamesKept ==
    /\ [](NoReservedProperty /\ OtherPropertiesLoaded)
    /\ [][AssignmentChangesNothing]_vars

\* an instance was constructed with default data that has a remove property
\* on a record that has a save property, and then was assigned a save property
AssignedToLoadedInstance ==
    /\ frame.op = "assign"
    /\ frame.threw
    /\ \E obj \in ReservedStored : HasKey(obj, KeySave) /\ pngText = SavedPage(obj)
    /\ GetProp(inst[frame.self].data, KeyFoo) = JStr(<<"b", "a", "r">>)
    /\ GetProp(inst[frame.self].data, KeyBaz) = JStr(<<"h", "i">>)
    /\ prefObj.live
    /\ HasKey(prefObj.data, KeyFoo)

-----------------------------------------------------------------------------
(* Properties of DomStorage on a document of several pages *)

\* the page holds a record: metadata that is truthy and parses
HoldsRecord(page) == Truthy(SlotValue(page.meta)) /\ Parse(page.meta.s).ok

\* the pages after the first that hold a record
RecordPages == {k \in 1..Len(otherPages) : HoldsRecord(otherPages[k])}

\* C22: a constructor given inCheckAllPages leaves the current page number as
\* it was; if the first page has no metadata and another page holds a record,
\* the first page gets the metadata and every chunk of the record of the
\* lowest such page, that page has them no more, the other pages are as
\* before, and the instance has the properties that were saved in the record,
\* and those of the default data it lacks; otherwise no page changes
CheckAllPagesTakesFirstRecord ==
    [][out'.fn = "DomStorage" =>
          /\ currentPageNum' = currentPageNum
          /\ (~Truthy(SlotValue(pngText.meta)) /\ RecordPages # {}) =>
                LET k == Least(RecordPages, 0)
                IN  /\ \E obj \in PageObjects : otherPages[k] = SavedPage(obj)
                    /\ \A obj \in PageObjects :
                          otherPages[k] = SavedPage(obj) =>
                              LET count == Ceiling(Len(Stringify(obj)), ChunkSize)
                              IN  /\ pngText'.meta = otherPages[k].meta
                                  /\ \A j \in 0..(count - 1) :
                                        /\ pngText'.chunk[j] = otherPages[k].chunk[j]
                                        /\ ~otherPages'[k].chunk[j].def
                                  /\ ~otherPages'[k].meta.def
                                  /\ StoredPlusMissingDefaults(inst'[frame'.self].data,
                                                               obj, frame'.defaults)
                    /\ \A h \in 1..Len(otherPages) : h # k => otherPages'[h] = otherPages[h]
                    /\ Len(otherPages') = Len(otherPages)
          /\ (Truthy(SlotValue(pngText.meta)) \/ RecordPages = {}) =>
                /\ pngText' = pngText
                /\ otherPages' = otherPages]_vars

\* the constructor passed a page whose metadata does not parse and took a
\* record of two chunks from the page after it, called from the second page
CopiedFromThirdPage ==
    /\ out.fn = "DomStorage"
    /\ out.lastPage = 2
    /\ currentPageNum = 1
    /\ otherPages = <<WriteMeta(NoPngText, <<"{">>), NoPngText>>
    /\ pngText = SavedPage(<<[k |-> KeyBaz, v |-> JStr(Pad(ChunkSize))]>>)
    /\ pngText.chunk[1].def
    /\ HasKey(inst[frame.self].data, KeyBaz)

-----------------------------------------------------------------------------
(* Properties of the path functions *)

\* str without the slash at its end, and without the slash at its start
DropEndSlash(str) == IF EndsWithSlash(str) THEN SubSeq(str, 1, Len(str) - 1) ELSE str
DropStartSlash(str) == IF StartsWithSlash(str) THEN SubSeq(str, 2, Len(str)) ELSE str

\* the arguments from i on, each after one "/"
RECURSIVE OneSlashBefore(_, _)
OneSlashBefore(args, i) ==
    IF i > Len(args) THEN <<>>
    ELSE <<"/">>
         \o (IF i < Len(args) THEN DropEndSlash(DropStartSlash(args[i]))
             ELSE DropStartSlash(args[i]))
         \o OneSlashBefore(args, i + 1)

\* the arguments with exactly one "/" between each two neighbours
OneSlashBetween(args) ==
    (IF Len(args) > 1 THEN DropEndSlash(args[1]) ELSE args[1]) \o OneSlashBefore(args, 2)

\* C27: what files.path returned has exactly one "/" between each two
\* neighbouring arguments, and is what path() of fwrequire.js returns for them
FilesPathOneSlashBetween ==
    out.fn = "files.path" =>
        /\ out.val.s = OneSlashBetween(out.arg)
        /\ out.val.s = path(out.arg)

-----------------------------------------------------------------------------
(* Properties of the Context objects *)

\* C25: when an execute returns, every global the context manages has in the
\* global scope the value it had when that execute was called, the context
\* has stored for it the value the global had at the end of the execution,
\* and the preservedGlobalsStack is as deep as when the execute was called
ExecuteRestoresGlobals ==
    [][Len(running') < Len(running) =>
          LET c == Innermost.c
          IN  /\ \A n \in context'[c].globals.has :
                    /\ global'[n] = Innermost.before[n]
                    /\ context'[c].globals.v[n] = global[n]
              /\ Len(context'[c].preservedGlobalsStack) = Innermost.depth]_vars

====
